---- MODULE Spec2Model ----
(***************************************************************************)
(* A model of markrealm's content index (src/content/loader.ts), its route *)
(* derivation and ignore matcher, and of the dev server that mutates the   *)
(* index from file-watch events while serving HTTP reads (src/server.ts).  *)
(*                                                                         *)
(* The repository holds two variants of the loader and of the server:      *)
(*   "full"   - unnamed/part_002 (loader) and unnamed/part_001 (server):   *)
(*              loadDocument is async and catches its own errors, and      *)
(*              updateDocumentInIndex re-inserts in a promise callback;    *)
(*   "simple" - src/content/loader.ts and src/server.ts: loadDocument is   *)
(*              synchronous and catches nothing.                           *)
(* The variable `variant` selects one of them for a whole behaviour.       *)
(*                                                                         *)
(* Strings are sequences of one-character strings, so that the string      *)
(* operations of the code (regex replace, basename, dirname, includes) are *)
(* computed and not assumed.                                               *)
(***************************************************************************)
EXTENDS Integers, Sequences, FiniteSets, TLC

VARIABLES
    variant,     \* "full" | "simple": which loader/server pair runs
    ignore,      \* config.ignore: a sequence of patterns
    byRoute,     \* ContentIndex.byRoute
    byPath,      \* ContentIndex.byPath
    phase,       \* "init" | "building" | "serving" | "aborted" (the build threw) | "crashed"
    todo,        \* buildContentIndex: the files of the glob not yet processed
    pc,          \* the watch-event callback: "idle" | "mutated" (mutation returned, broadcast not yet sent)
    ev,          \* the watch event being handled
    microtasks,  \* promise reactions queued by updateDocumentInIndex (full variant)
    last,        \* per path, the last index operation issued for it and its outcome
    okFiles,     \* buildContentIndex: the files loaded successfully so far
    prevUpdate,  \* the path of the update that completed last, with nothing after it
    snap,        \* the index before a repeated update of the same unchanged file
    resp,        \* the HTTP request in flight: what handleRoute found for it
    rin,         \* route derivation: the input path, by its parts
    rout,        \* route derivation: the derived route
    sbIn,        \* sidebar: the documents of byRoute, in insertion order, and config.sidebar.order
    sbOut,       \* sidebar: what generateSidebar returned
    lkIn,        \* link check: the files of the content root and their order of discovery
    lkOut,       \* link check: the index built from them and what checkInternalLinks returned
    xurls,       \* external check: the URLs handed to checkExternalLinks
    xchk,        \* external check: the loop of checkExternalLinks and, per URL, its checkSingleExternalLink call
    igIn,        \* ignore matcher: the file path and the patterns
    igOut,       \* ignore matcher: what isIgnoredPath returned
    cfIn,        \* configuration: the candidate files of the directory and what parsing them gives
    cfOut,       \* configuration: what loadConfig returned, and what it logged
    exIn,        \* link extraction: the href and text of a link node
    exOut,       \* link extraction: the links extractLinks returned
    bIn,         \* static build: the content root, the options and the output directory before the build
    bOut         \* static build: the position of buildStaticSite, its results and the output directory

vars == <<variant, ignore, byRoute, byPath, phase, todo, pc, ev, microtasks,
          last, okFiles, prevUpdate, snap, resp, rin, rout, sbIn, sbOut,
          lkIn, lkOut, xurls, xchk, igIn, igOut, cfIn, cfOut, exIn, exOut,
          bIn, bOut>>

(***************************************************************************)
(* Bounds.                                                                 *)
(***************************************************************************)
MaxVer == 2

(***************************************************************************)
(* Strings.                                                                *)
(***************************************************************************)
StartsWith(s, pre) ==
    Len(pre) <= Len(s) /\ SubSeq(s, 1, Len(pre)) = pre

EndsWith(s, suf) ==
    Len(suf) <= Len(s) /\ SubSeq(s, Len(s) - Len(suf) + 1, Len(s)) = suf

Includes(s, sub) ==
    \E i \in 1..(Len(s) + 1) :
        i + Len(sub) - 1 <= Len(s) /\ SubSeq(s, i, i + Len(sub) - 1) = sub

MaxOf(S) == IF S = {} THEN 0 ELSE CHOOSE m \in S : \A n \in S : n <= m

ExtMd == <<".", "m", "d">>
ExtMdoc == <<".", "m", "d", "o", "c">>
IndexName == <<"i", "n", "d", "e", "x">>

\* path.relative(from, to), for a path `to` below the directory `from`
PathRelative(from, to) ==
    IF StartsWith(to, from \o <<"/">>)
    THEN SubSeq(to, Len(from) + 2, Len(to))
    ELSE to

\* the path without its trailing separators, as basename and dirname read it
TrimSlashes(p) == SubSeq(p, 1, MaxOf({i \in 1..Len(p) : p[i] # "/"}))

LastSlash(p) == MaxOf({i \in 1..Len(p) : p[i] = "/"})

\* path.basename(p)
PathBasename(p) ==
    LET t == TrimSlashes(p) IN SubSeq(t, LastSlash(t) + 1, Len(t))

\* path.dirname(p), for a relative path
PathDirname(p) ==
    LET t == TrimSlashes(p)
        i == LastSlash(t)
    IN  IF i = 0 THEN <<".">> ELSE SubSeq(t, 1, i - 1)

\* a route derivation that strips ".md" alone
StripExt_MdOnly(p) ==
    IF EndsWith(p, ExtMd) THEN SubSeq(p, 1, Len(p) - Len(ExtMd)) ELSE p

\* relativePath.replace(/\.(md|mdoc)$/, "")
StripExt(p) ==
    IF EndsWith(p, ExtMd) THEN SubSeq(p, 1, Len(p) - Len(ExtMd))
    ELSE IF EndsWith(p, ExtMdoc) THEN SubSeq(p, 1, Len(p) - Len(ExtMdoc))
    ELSE p

\* a route derivation that keeps a separator after the directory of an index file
generateRoute_IndexKeepsSlash(filePath, docsDir) ==
    LET relativePath == PathRelative(docsDir, filePath)
        pathWithoutExt == StripExt(relativePath)
    IN  IF PathBasename(pathWithoutExt) = IndexName
        THEN <<"/">> \o SubSeq(pathWithoutExt, 1, Len(pathWithoutExt) - Len(IndexName))
        ELSE <<"/">> \o pathWithoutExt

generateRoute(filePath, docsDir) ==
    LET relativePath == PathRelative(docsDir, filePath)
        pathWithoutExt == StripExt(relativePath)
    IN  IF PathBasename(pathWithoutExt) = IndexName
        THEN LET dir == PathDirname(pathWithoutExt)
             IN  IF dir = <<".">> THEN <<"/">> ELSE <<"/">> \o dir
        ELSE <<"/">> \o pathWithoutExt

(***************************************************************************)
(* The ignore matcher (src/config.ts).  A pattern holding "*" is turned    *)
(* into a regular expression by replacing every "*" by ".*"; the other     *)
(* characters stay as they are, so "." matches any one character.  The     *)
(* patterns of the model use letters, "/", "." and "*" only.               *)
(***************************************************************************)
RECURSIVE MatchAt(_, _, _, _)
\* the regular expression of pattern pat, from its i-th character on, matches s at position j
MatchAt(pat, i, s, j) ==
    IF i > Len(pat) THEN TRUE
    ELSE IF pat[i] = "*" THEN \E k \in j..(Len(s) + 1) : MatchAt(pat, i + 1, s, k)
    ELSE IF j > Len(s) THEN FALSE
    ELSE IF pat[i] = "." \/ pat[i] = s[j] THEN MatchAt(pat, i + 1, s, j + 1)
    ELSE FALSE

\* the search anchored at the start of s
RegexTest_Anchored(pat, s) == MatchAt(pat, 1, s, 1)

\* new RegExp(pattern.replace(/\*/g, ".*")).test(s): an unanchored search
RegexTest(pat, s) == \E j \in 1..(Len(s) + 1) : MatchAt(pat, 1, s, j)

Cwd == <<"/", "w">>

isIgnoredPath(filePath, ignorePatterns) ==
    LET relativePath == PathRelative(Cwd, filePath)
    IN  \E n \in 1..Len(ignorePatterns) :
            LET pattern == ignorePatterns[n]
            IN  IF Includes(pattern, <<"*">>)
                THEN RegexTest(pattern, relativePath)
                ELSE Includes(relativePath, pattern)

(***************************************************************************)
(* The content root, its files and the configurations of the model.        *)
(* g.md and g/index.md derive the same route.                              *)
(***************************************************************************)
DocsDir == Cwd \o <<"/", "d">>
FGuide == DocsDir \o <<"/", "g", ".", "m", "d">>
FGuideIndex == DocsDir \o <<"/", "g", "/", "i", "n", "d", "e", "x", ".", "m", "d">>
FDraft == DocsDir \o <<"/", "x", "/", "b", ".", "m", "d">>
Files == {FGuide, FGuideIndex, FDraft}

IgnoreChoices == { <<>>, << <<"x", "/", "*">> >> }

Contents == (-1)..MaxVer

(***************************************************************************)
(* Documents and the two maps (src/content/types.ts).  The fields read     *)
(* from the file (title, html, headings, links, front matter) are a        *)
(* function of its content, which `ver` stands for.                        *)
(***************************************************************************)
EmptyMap == [k \in {} |-> 0]
MapSet(m, k, v) == [x \in (DOMAIN m) \cup {k} |-> IF x = k THEN v ELSE m[x]]
MapDelete(m, k) == [x \in (DOMAIN m) \ {k} |-> m[x]]

NoDoc == [path |-> <<>>, route |-> <<>>, ver |-> 0]

\* loadDocument on a file that can be read and rendered
DocMeta(filePath, docsDir, content) ==
    [path |-> filePath, route |-> generateRoute(filePath, docsDir), ver |-> content]

\* readFileSync and renderMarkdocToHtml succeed
Loadable(content) == content > 0

\* an insertion that keeps the document a route already has
InsertDoc_FirstRouteWins(index, docMeta) ==
    [byRoute |-> IF docMeta.route \in DOMAIN index.byRoute
                 THEN index.byRoute
                 ELSE MapSet(index.byRoute, docMeta.route, docMeta),
     byPath |-> MapSet(index.byPath, docMeta.path, docMeta)]

\* index.byRoute.set(docMeta.route, docMeta); index.byPath.set(docMeta.path, docMeta)
InsertDoc(index, docMeta) ==
    [byRoute |-> MapSet(index.byRoute, docMeta.route, docMeta),
     byPath |-> MapSet(index.byPath, docMeta.path, docMeta)]

\* a removal that forgets the route key
removeDocumentFromIndex_PathOnly(index, filePath) ==
    IF filePath \in DOMAIN index.byPath
    THEN [byRoute |-> index.byRoute, byPath |-> MapDelete(index.byPath, filePath)]
    ELSE index

\* removeDocumentFromIndex, and the first statements of updateDocumentInIndex
removeDocumentFromIndex(index, filePath) ==
    IF filePath \in DOMAIN index.byPath
    THEN [byRoute |-> MapDelete(index.byRoute, index.byPath[filePath].route),
          byPath |-> MapDelete(index.byPath, filePath)]
    ELSE index

Index == [byRoute |-> byRoute, byPath |-> byPath]

NoPath == <<>>
NoUpdate == [path |-> NoPath, content |-> 0]
NoEvent == [kind |-> "none", op |-> "none", path |-> NoPath, content |-> 0,
            had |-> FALSE, prev |-> NoPath]
NoSnap == [taken |-> FALSE, byRoute |-> EmptyMap, byPath |-> EmptyMap]
NoResp == [route |-> <<>>, status |-> 0, doc |-> NoDoc]
NoInput == [dir |-> <<>>, stem |-> <<>>, ext |-> <<>>]

serverVars == <<variant, ignore, byRoute, byPath, phase, todo, pc, ev,
                microtasks, last, okFiles, prevUpdate, snap, resp>>
routeVars == <<rin, rout>>
sidebarVars == <<sbIn, sbOut>>
linkVars == <<lkIn, lkOut>>
extVars == <<xurls, xchk>>
ignoreVars == <<igIn, igOut>>
configVars == <<cfIn, cfOut>>
extractVars == <<exIn, exOut>>
buildVars == <<bIn, bOut>>
toolVars == <<ignoreVars, configVars, extractVars, buildVars>>
fnVars == <<routeVars, sidebarVars, linkVars, extVars, toolVars>>

NoSidebar == [done |-> FALSE, items |-> <<>>]
NoSidebarInput == [docs |-> <<>>, order |-> <<>>]
NoLinkInput == [files |-> <<>>, markdoc |-> "none"]
NoLinkResult == [stage |-> "none", byRoute |-> EmptyMap, byPath |-> EmptyMap,
                 result |-> [broken |-> <<>>, valid |-> <<>>, external |-> <<>>]]
NoUrls == <<>>
NoChecks == [stage |-> "none", i |-> 0, checks |-> <<>>, valid |-> <<>>, broken |-> <<>>]

NoCall == [stage |-> "none"]

\* the ignore matcher, loadConfig, extractLinks and the static build have not been called
ToolsOff ==
    /\ igIn = NoCall
    /\ igOut = NoCall
    /\ cfIn = NoCall
    /\ cfOut = NoCall
    /\ exIn = NoCall
    /\ exOut = NoCall
    /\ bIn = NoCall
    /\ bOut = NoCall

\* the sidebar builder, the link check and the external check are not running
FunctionsOff ==
    /\ ToolsOff
    /\ sbIn = NoSidebarInput
    /\ sbOut = NoSidebar
    /\ lkIn = NoLinkInput
    /\ lkOut = NoLinkResult
    /\ xurls = NoUrls
    /\ xchk = NoChecks

(***************************************************************************)
(* The state after construction: one of the configurations; the index     *)
(* does not exist yet.  The content root belongs to the environment: what  *)
(* the glob finds and what a read returns are inputs of the actions, a     *)
(* content of 0 being a missing file, -1 a file that cannot be read or     *)
(* rendered, and n > 0 the n-th version of its text.                       *)
(***************************************************************************)
ServerInit ==
    /\ variant \in {"full", "simple"}
    /\ ignore \in IgnoreChoices
    /\ byRoute = EmptyMap
    /\ byPath = EmptyMap
    /\ phase = "init"
    /\ todo = {}
    /\ pc = "idle"
    /\ ev = NoEvent
    /\ microtasks = <<>>
    /\ last = [f \in Files |-> "none"]
    /\ okFiles = {}
    /\ prevUpdate = NoUpdate
    /\ snap = NoSnap
    /\ resp = NoResp

Init ==
    /\ ServerInit
    /\ rin = NoInput
    /\ rout = <<>>
    /\ FunctionsOff

(***************************************************************************)
(* MarkrealmServer.start: loadConfig, then buildContentIndex, then the     *)
(* HTTP listener and the file watcher.                                     *)
(***************************************************************************)
\* buildContentIndex up to the glob: the empty index and the files found
BuildStart(files) ==
    /\ phase = "init"
    /\ phase' = "building"
    /\ byRoute' = EmptyMap
    /\ byPath' = EmptyMap
    /\ todo' = files
    /\ okFiles' = {}
    /\ UNCHANGED <<fnVars, variant, ignore, pc, ev, microtasks, last, prevUpdate,
                   snap, resp>>

\* one iteration of the loop over the files
BuildFile(filePath, content) ==
    /\ phase = "building"
    /\ filePath \in todo
    /\ todo' = todo \ {filePath}
    /\ IF isIgnoredPath(filePath, ignore)
       THEN UNCHANGED <<byRoute, byPath, phase, last, okFiles>>
       ELSE IF Loadable(content)
       THEN LET index == InsertDoc(Index, DocMeta(filePath, DocsDir, content))
            IN  /\ byRoute' = index.byRoute
                /\ byPath' = index.byPath
                /\ last' = [last EXCEPT ![filePath] = "loaded"]
                /\ okFiles' = okFiles \cup {filePath}
                /\ UNCHANGED phase
       ELSE \* the load throws: caught and logged (full), or it rejects the build (simple)
            /\ phase' = IF variant = "full" THEN phase ELSE "aborted"
            /\ UNCHANGED <<byRoute, byPath, last, okFiles>>
    /\ UNCHANGED <<fnVars, variant, ignore, pc, ev, microtasks, prevUpdate, snap, resp>>

\* buildContentIndex returns; start sets up the listener and the watcher
BuildReturn ==
    /\ phase = "building"
    /\ todo = {}
    /\ phase' = "serving"
    /\ okFiles' = {}
    /\ UNCHANGED <<fnVars, variant, ignore, byRoute, byPath, todo, pc, ev,
                   microtasks, last, prevUpdate, snap, resp>>

(***************************************************************************)
(* The event loop.  A watch event and an HTTP request are each handled in  *)
(* a task of their own, and the promise reactions a task queues run when   *)
(* it ends, before the next task starts.                                   *)
(***************************************************************************)
\* a listener that does not wait for the server to be set up
TaskCanStart_AnyPhase ==
    /\ phase \in {"building", "serving"}
    /\ pc = "idle"
    /\ microtasks = <<>>

TaskCanStart ==
    /\ phase = "serving"
    /\ pc = "idle"
    /\ microtasks = <<>>

\* the record of the event a listener is handling
Event(kind, op, filePath, content) ==
    [kind |-> kind, op |-> op, path |-> filePath, content |-> content,
     had |-> filePath \in DOMAIN byPath, prev |-> prevUpdate.path]

\* the snapshot taken when the update repeats the update that completed last
SnapFor(filePath, content) ==
    IF prevUpdate = [path |-> filePath, content |-> content]
    THEN [taken |-> TRUE, byRoute |-> byRoute, byPath |-> byPath]
    ELSE NoSnap

\* watcher "change"/"add": updateDocumentInIndex up to its return
HandleFileChange(filePath, kind, content) ==
    /\ TaskCanStart
    /\ kind \in {"added", "changed"}
    /\ snap' = SnapFor(filePath, IF isIgnoredPath(filePath, ignore) THEN 0 ELSE content)
    /\ LET removed == removeDocumentFromIndex(Index, filePath)
       IN  IF isIgnoredPath(filePath, ignore)
           THEN /\ byRoute' = removed.byRoute
                /\ byPath' = removed.byPath
                /\ ev' = Event(kind, "update", filePath, 0)
                /\ last' = [last EXCEPT ![filePath] = "none"]
                /\ pc' = "mutated"
                /\ prevUpdate' = NoUpdate
                /\ UNCHANGED <<microtasks, phase>>
           ELSE IF variant = "full"
           THEN \* loadDocument has read the file; its result is inserted by the reaction
                /\ byRoute' = removed.byRoute
                /\ byPath' = removed.byPath
                /\ microtasks' = <<[path |-> filePath, content |-> content,
                                     doc |-> IF Loadable(content)
                                             THEN DocMeta(filePath, DocsDir, content)
                                             ELSE NoDoc]>>
                /\ ev' = Event(kind, "update", filePath, content)
                /\ last' = [last EXCEPT ![filePath] =
                                IF Loadable(content) THEN "loaded" ELSE "none"]
                /\ pc' = "mutated"
                /\ prevUpdate' = NoUpdate
                /\ UNCHANGED phase
           ELSE IF Loadable(content)
           THEN LET index == InsertDoc(removed, DocMeta(filePath, DocsDir, content))
                IN  /\ byRoute' = index.byRoute
                    /\ byPath' = index.byPath
                    /\ ev' = Event(kind, "update", filePath, content)
                    /\ last' = [last EXCEPT ![filePath] = "loaded"]
                    /\ pc' = "mutated"
                    /\ prevUpdate' = NoUpdate
                    /\ UNCHANGED <<microtasks, phase>>
           ELSE \* loadDocument throws out of the listener: no broadcast; the
                \* watcher either survives the exception or the process ends
                /\ byRoute' = removed.byRoute
                /\ byPath' = removed.byPath
                /\ last' = [last EXCEPT ![filePath] = "none"]
                /\ phase' \in {"serving", "crashed"}
                /\ prevUpdate' = [path |-> filePath, content |-> content]
                /\ UNCHANGED <<pc, ev, microtasks>>
    /\ UNCHANGED <<fnVars, variant, ignore, todo, okFiles, resp>>

\* watcher "unlink": removeDocumentFromIndex up to its return
HandleFileRemoval(filePath) ==
    /\ TaskCanStart
    /\ LET removed == removeDocumentFromIndex(Index, filePath)
       IN  /\ byRoute' = removed.byRoute
           /\ byPath' = removed.byPath
    /\ ev' = Event("removed", "remove", filePath, 0)
    /\ last' = [last EXCEPT ![filePath] = "removed"]
    /\ pc' = "mutated"
    /\ prevUpdate' = NoUpdate
    /\ snap' = NoSnap
    /\ UNCHANGED <<fnVars, variant, ignore, phase, todo, microtasks, okFiles, resp>>

\* broadcastReload, the last statement of the listener
BroadcastReload ==
    /\ phase = "serving"
    /\ pc = "mutated"
    /\ pc' = "idle"
    /\ ev' = NoEvent
    /\ prevUpdate' = IF ev.kind # "removed" /\ microtasks = <<>>
                   THEN [path |-> ev.path, content |-> ev.content]
                   ELSE NoUpdate
    /\ UNCHANGED <<fnVars, variant, ignore, byRoute, byPath, phase, todo, microtasks,
                   last, okFiles, snap, resp>>

\* the .then callback of updateDocumentInIndex (full variant)
RunMicrotask ==
    /\ phase = "serving"
    /\ pc = "idle"
    /\ microtasks # <<>>
    /\ LET docMeta == Head(microtasks).doc
           index == IF docMeta # NoDoc THEN InsertDoc(Index, docMeta) ELSE Index
       IN  /\ byRoute' = index.byRoute
           /\ byPath' = index.byPath
    /\ microtasks' = Tail(microtasks)
    /\ prevUpdate' = [path |-> Head(microtasks).path, content |-> Head(microtasks).content]
    /\ UNCHANGED <<fnVars, variant, ignore, phase, todo, pc, ev, last, okFiles, snap, resp>>

(***************************************************************************)
(* HTTP reads.                                                             *)
(***************************************************************************)
ConfigName == <<"m", "a", "r", "k", "r", "e", "a", "l", "m", ".", "c", "o", "n", "f", "i", "g">>

isConfigFile(route) ==
    \/ EndsWith(route, <<".", "y", "a", "m", "l">>)
    \/ EndsWith(route, <<".", "y", "m", "l">>)
    \/ EndsWith(route, <<".", "j", "s", "o", "n">>)
    \/ Includes(route, ConfigName)
    \/ Includes(route, <<".", "c", "o", "n", "f", "i", "g", ".">>)

\* /\.(yaml|yml|json|config)/.test(route) of src/server.ts
IsConfigRoute(route) ==
    \/ Includes(route, <<".", "y", "a", "m", "l">>)
    \/ Includes(route, <<".", "y", "m", "l">>)
    \/ Includes(route, <<".", "j", "s", "o", "n">>)
    \/ Includes(route, <<".", "c", "o", "n", "f", "i", "g">>)

RequestPaths == {generateRoute(f, DocsDir) : f \in Files} \cup {<<"/", "z">>}

\* handleRoute up to its await: the lookup in byRoute (and the sidebar read)
HandleRoute(route) ==
    /\ TaskCanStart
    /\ resp = NoResp
    /\ resp' = IF (IF variant = "full" THEN isConfigFile(route) ELSE IsConfigRoute(route))
                     \/ route \notin DOMAIN byRoute
               THEN [route |-> route, status |-> 404, doc |-> NoDoc]
               ELSE [route |-> route, status |-> 200, doc |-> byRoute[route]]
    /\ UNCHANGED <<fnVars, variant, ignore, byRoute, byPath, phase, todo, pc, ev,
                   microtasks, last, okFiles, prevUpdate, snap>>

\* res.send: the response leaves the server
SendResponse ==
    /\ resp # NoResp
    /\ resp' = NoResp
    /\ UNCHANGED <<fnVars, variant, ignore, byRoute, byPath, phase, todo, pc, ev,
                   microtasks, last, okFiles, prevUpdate, snap>>

Next ==
    \/ \E files \in SUBSET Files : BuildStart(files)
    \/ \E f \in Files, c \in Contents : BuildFile(f, c)
    \/ BuildReturn
    \/ \E f \in Files, kind \in {"added", "changed"}, c \in Contents :
           HandleFileChange(f, kind, c)
    \/ \E f \in Files : HandleFileRemoval(f)
    \/ BroadcastReload
    \/ RunMicrotask
    \/ \E route \in RequestPaths : HandleRoute(route)
    \/ SendResponse

Spec == Init /\ [][Next]_vars

(***************************************************************************)
(* Requests on their own: the server is up, the index holds the documents  *)
(* of some of the files below, and requests are answered.                  *)
(***************************************************************************)
FHome == DocsDir \o <<"/", "i", "n", "d", "e", "x", ".", "m", "d">>
FAbout == DocsDir \o <<"/", "a", "b", "o", "u", "t", ".", "m", "d">>
FConfigDoc == DocsDir \o <<"/", "m", "a", "r", "k", "r", "e", "a", "l", "m", ".", "c", "o", "n", "f", "i", "g", ".", "m", "d">>
FSchema == DocsDir \o <<"/", "a", "p", "i", "/", "s", "c", "h", "e", "m", "a", ".", "j", "s", "o", "n", ".", "m", "d">>
FSettings == DocsDir \o <<"/", "a", "p", "p", ".", "c", "o", "n", "f", "i", "g", ".", "m", "d">>
ServeFiles == <<FHome, FAbout, FConfigDoc, FSchema, FSettings>>

RECURSIVE IndexOf(_, _)
\* the index after buildContentIndex over those of the first n files that are in chosen
IndexOf(chosen, n) ==
    IF n = 0 THEN [byRoute |-> EmptyMap, byPath |-> EmptyMap]
    ELSE IF ServeFiles[n] \in chosen
    THEN InsertDoc(IndexOf(chosen, n - 1), DocMeta(ServeFiles[n], DocsDir, 1))
    ELSE IndexOf(chosen, n - 1)

ServeRequests ==
    {generateRoute(ServeFiles[n], DocsDir) : n \in 1..Len(ServeFiles)}
    \cup {<<"/", "a", "b", "o", "u", "t", "/">>, <<"/", "n", "o", "p", "e">>}

ServeInit ==
    /\ FunctionsOff
    /\ rin = NoInput
    /\ rout = <<>>
    /\ variant \in {"full", "simple"}
    /\ ignore = <<>>
    /\ \E chosen \in SUBSET {ServeFiles[n] : n \in 1..Len(ServeFiles)} :
          /\ byRoute = IndexOf(chosen, Len(ServeFiles)).byRoute
          /\ byPath = IndexOf(chosen, Len(ServeFiles)).byPath
    /\ phase = "serving"
    /\ todo = {}
    /\ pc = "idle"
    /\ ev = NoEvent
    /\ microtasks = <<>>
    /\ last = [f \in Files |-> "none"]
    /\ okFiles = {}
    /\ prevUpdate = NoUpdate
    /\ snap = NoSnap
    /\ resp = NoResp

ServeNext ==
    \/ \E route \in ServeRequests : HandleRoute(route)
    \/ SendResponse

SpecServe == ServeInit /\ [][ServeNext]_vars

(***************************************************************************)
(* Route derivation on its own: generateRoute applied to the paths made of *)
(* a directory, a file stem and a markup extension.                        *)
(***************************************************************************)
Dirs == { <<>>, <<"g">>, <<"g", "/", "s">>, IndexName, <<"d", "o", "c", "s">> }
Stems == { IndexName, <<"a">>, <<"x">>, <<"a">> \o ExtMd,
           <<"x">> \o IndexName, <<"I", "n", "d", "e", "x">> }
Exts == {ExtMd, ExtMdoc}

RelPath(in) == (IF in.dir = <<>> THEN <<>> ELSE in.dir \o <<"/">>) \o in.stem \o in.ext
AbsPath(in) == DocsDir \o <<"/">> \o RelPath(in)

ServerOff ==
    /\ variant = "full"
    /\ ignore = <<>>
    /\ byRoute = EmptyMap
    /\ byPath = EmptyMap
    /\ phase = "init"
    /\ todo = {}
    /\ pc = "idle"
    /\ ev = NoEvent
    /\ microtasks = <<>>
    /\ last = [f \in Files |-> "none"]
    /\ okFiles = {}
    /\ prevUpdate = NoUpdate
    /\ snap = NoSnap
    /\ resp = NoResp

RouteInit ==
    /\ ServerOff
    /\ FunctionsOff
    /\ rin \in [dir : Dirs, stem : Stems, ext : Exts]
    /\ rout = <<>>

Derive ==
    /\ rout = <<>>
    /\ rout' = generateRoute(AbsPath(rin), DocsDir)
    /\ UNCHANGED rin
    /\ UNCHANGED <<serverVars, sidebarVars, linkVars, extVars, toolVars>>

RouteNext == Derive

SpecRoute == RouteInit /\ [][RouteNext]_vars

(***************************************************************************)
(* The sidebar builder (src/content/sidebar.ts).  An item is a record      *)
(* [title, route, dir, children]: dir says that the item has a children    *)
(* array, and a leaf has none (children is the empty sequence).            *)
(***************************************************************************)
Lower == <<"a", "b", "c", "d", "e", "f", "g", "h", "i", "j", "k", "l", "m",
           "n", "o", "p", "q", "r", "s", "t", "u", "v", "w", "x", "y", "z">>
Upper == <<"A", "B", "C", "D", "E", "F", "G", "H", "I", "J", "K", "L", "M",
           "N", "O", "P", "Q", "R", "S", "T", "U", "V", "W", "X", "Y", "Z">>

\* the place of a letter in the alphabet, whatever its case; 0 for the space
LetterRank(c) ==
    IF c = " " THEN 0
    ELSE IF \E i \in 1..Len(Lower) : Lower[i] = c \/ Upper[i] = c
    THEN CHOOSE i \in 1..Len(Lower) : Lower[i] = c \/ Upper[i] = c
    ELSE Len(Lower) + 1

IsUpper(c) == \E i \in 1..Len(Upper) : Upper[i] = c

\* String.prototype.toUpperCase on one character
ToUpper(c) ==
    IF \E i \in 1..Len(Lower) : Lower[i] = c
    THEN Upper[CHOOSE i \in 1..Len(Lower) : Lower[i] = c]
    ELSE c

\* a.localeCompare(b): the letters decide, whatever their case; between
\* titles of the same letters, the lower case comes first
LocaleCompare(a, b) ==
    LET n == IF Len(a) < Len(b) THEN Len(a) ELSE Len(b)
        diff == {i \in 1..n : LetterRank(a[i]) # LetterRank(b[i])}
        case == {i \in 1..n : a[i] # b[i]}
    IN  IF diff # {}
        THEN LET i == CHOOSE k \in diff : \A m \in diff : k <= m
             IN  IF LetterRank(a[i]) < LetterRank(b[i]) THEN -1 ELSE 1
        ELSE IF Len(a) # Len(b) THEN (IF Len(a) < Len(b) THEN -1 ELSE 1)
        ELSE IF case # {}
        THEN LET i == CHOOSE k \in case : \A m \in case : k <= m
             IN  IF IsUpper(b[i]) THEN -1 ELSE 1
        ELSE 0

\* segment.split("-").map(capitalize).join(" ")
formatTitle(segment) ==
    [i \in 1..Len(segment) |->
        IF segment[i] = "-" THEN " "
        ELSE IF i = 1 \/ segment[i - 1] = "-" THEN ToUpper(segment[i])
        ELSE segment[i]]

RECURSIVE SplitFrom(_, _, _)
\* the segments of s between separators, from position i on, cur being the segment begun
SplitFrom(s, i, cur) ==
    IF i > Len(s) THEN (IF cur = <<>> THEN <<>> ELSE <<cur>>)
    ELSE IF s[i] = "/"
    THEN (IF cur = <<>> THEN <<>> ELSE <<cur>>) \o SplitFrom(s, i + 1, <<>>)
    ELSE SplitFrom(s, i + 1, Append(cur, s[i]))

\* route.split("/").filter(Boolean)
Segments(route) == SplitFrom(route, 1, <<>>)

RECURSIVE JoinSegments(_, _)
\* the first n segments joined by "/": currentPath after n rounds of the loop
JoinSegments(segments, n) ==
    IF n = 0 THEN <<>>
    ELSE IF n = 1 THEN segments[1]
    ELSE JoinSegments(segments, n - 1) \o <<"/">> \o segments[n]

\* the first position whose test in hits is true, 0 when there is none
\* (find, findIndex + 1)
FirstIndex(hits) ==
    IF \E k \in 1..Len(hits) : hits[k]
    THEN CHOOSE k \in 1..Len(hits) : hits[k] /\ \A m \in 1..(k - 1) : ~hits[m]
    ELSE 0

RemoveAt(s, k) == SubSeq(s, 1, k - 1) \o SubSeq(s, k + 1, Len(s))

\* one round of the inner loop of buildTree: segment i of the route of doc
BuildSegment(pathMap, doc, segments, i) ==
    LET parentPath == JoinSegments(segments, i - 1)
        currentPath == JoinSegments(segments, i)
        isLast == i = Len(segments)
        children == IF parentPath \in DOMAIN pathMap THEN pathMap[parentPath] ELSE <<>>
        Existing(item) == \/ item.route = <<"/">> \o currentPath
                          \/ (isLast /\ item.route = doc.route)
        found == FirstIndex([k \in 1..Len(children) |-> Existing(children[k])])
        newItem == IF isLast
                   THEN [title |-> doc.title, route |-> doc.route,
                         dir |-> FALSE, children |-> <<>>]
                   ELSE [title |-> formatTitle(segments[i]),
                         route |-> <<"/">> \o currentPath,
                         dir |-> TRUE, children |-> <<>>]
        pushed == IF found = 0 THEN Append(children, newItem) ELSE children
        at == IF found = 0 THEN Len(pushed) ELSE found
        titled == IF isLast THEN [pushed EXCEPT ![at].title = doc.title] ELSE pushed
    IN  MapSet(pathMap, parentPath, titled)

RECURSIVE BuildSegments(_, _, _, _)
BuildSegments(pathMap, doc, segments, i) ==
    IF i > Len(segments) THEN pathMap
    ELSE BuildSegments(BuildSegment(pathMap, doc, segments, i), doc, segments, i + 1)

RECURSIVE BuildDocs(_, _, _)
BuildDocs(pathMap, docs, n) ==
    IF n > Len(docs) THEN pathMap
    ELSE BuildDocs(BuildSegments(pathMap, docs[n], Segments(docs[n].route), 1), docs, n + 1)

\* the array a directory item is created with is never entered in pathMap:
\* the items of pathMap.get("") are returned with the children they were made with
buildTree(docs) ==
    LET pathMap == BuildDocs(EmptyMap, docs, 1)
    IN  IF <<>> \in DOMAIN pathMap THEN pathMap[<<>>] ELSE <<>>

\* the comparator of sortTreeAlphabetically
compareItems_TitleOnly(a, b) == LocaleCompare(a.title, b.title)

compareItems(a, b) ==
    IF a.dir /\ ~b.dir THEN -1
    ELSE IF ~a.dir /\ b.dir THEN 1
    ELSE LocaleCompare(a.title, b.title)

RECURSIVE SortItems(_)
\* Array.prototype.sort with compareItems: a stable sort
SortItems(s) ==
    IF s = <<>> THEN <<>>
    ELSE LET rest == SortItems(SubSeq(s, 1, Len(s) - 1))
             x == s[Len(s)]
             k == Cardinality({i \in 1..Len(rest) : compareItems(rest[i], x) <= 0})
         IN  SubSeq(rest, 1, k) \o <<x>> \o SubSeq(rest, k + 1, Len(rest))

RECURSIVE sortTreeAlphabetically(_)
sortTreeAlphabetically(tree) ==
    LET sorted == SortItems(tree)
    IN  IF sorted = <<>> THEN <<>>
        ELSE [k \in 1..Len(sorted) |->
                [sorted[k] EXCEPT !.children =
                    IF sorted[k].dir THEN sortTreeAlphabetically(@) ELSE <<>>]]

\* an ordering that leaves the configured patterns out
applyOrdering_IgnoresOrder(tree, order) == sortTreeAlphabetically(tree)

\* item.route === `/${stem}` || item.route === `/${stem}/`
ExactMatch(item, pattern) ==
    \/ item.route = <<"/">> \o StripExt(pattern)
    \/ item.route = <<"/">> \o StripExt(pattern) \o <<"/">>

\* regex.test(item.route.substring(1))
GlobMatch(item, pattern) == RegexTest(pattern, Tail(item.route))

IsGlob(pattern) == Includes(pattern, <<"*">>)

RECURSIVE ExactPass(_, _, _)
\* the first loop of applyOrdering, from pattern n on; st is [ordered, remaining]
ExactPass(st, order, n) ==
    IF n > Len(order) THEN st
    ELSE LET pattern == order[n]
             Matches(item) == ExactMatch(item, pattern)
             found == FirstIndex([k \in 1..Len(st.remaining) |-> Matches(st.remaining[k])])
         IN  ExactPass(IF ~IsGlob(pattern) /\ found # 0
                       THEN [ordered |-> Append(st.ordered, st.remaining[found]),
                             remaining |-> RemoveAt(st.remaining, found)]
                       ELSE st,
                       order, n + 1)

RECURSIVE GlobPass(_, _, _)
\* the second loop of applyOrdering, from pattern n on
GlobPass(st, order, n) ==
    IF n > Len(order) THEN st
    ELSE LET pattern == order[n]
             Matches(item) == GlobMatch(item, pattern)
             Others(item) == ~GlobMatch(item, pattern)
         IN  GlobPass(IF IsGlob(pattern)
                      THEN [ordered |-> st.ordered \o SelectSeq(st.remaining, Matches),
                            remaining |-> SelectSeq(st.remaining, Others)]
                      ELSE st,
                      order, n + 1)

applyOrdering(tree, order) ==
    LET exact == ExactPass([ordered |-> <<>>, remaining |-> tree], order, 1)
        glob == GlobPass(exact, order, 1)
    IN  glob.ordered \o sortTreeAlphabetically(glob.remaining)

generateSidebar(docs, order) ==
    IF Len(order) = 0
    THEN sortTreeAlphabetically(buildTree(docs))
    ELSE applyOrdering(buildTree(docs), order)

(***************************************************************************)
(* The sidebar builder on its own: generateSidebar applied to the values   *)
(* of a byRoute map (documents of distinct routes, in insertion order) and *)
(* to a configured order.                                                  *)
(***************************************************************************)
MaxDocs == 3

SidebarDoc(route, title) == [route |-> route, title |-> title]

SidebarDocs ==
    { SidebarDoc(<<"/">>, <<"H", "o", "m", "e">>),
      SidebarDoc(<<"/", "b">>, <<"B", "e", "e">>),
      SidebarDoc(<<"/", "y">>, <<"a", "p", "p", "l", "e">>),
      SidebarDoc(<<"/", "z">>, <<"Z", "e", "d">>),
      SidebarDoc(<<"/", "g">>, <<"O", "v", "e", "r">>),
      SidebarDoc(<<"/", "g", "/", "c">>, <<"C", "e", "e">>),
      SidebarDoc(<<"/", "g", "/", "a">>, <<"A", "y">>),
      SidebarDoc(<<"/", "p", "/", "x">>, <<"E", "x">>),
      SidebarDoc(<<"/", "q", "-", "r", "/", "x">>, <<"W", "h", "y">>) }

\* Array.from(index.byRoute.values()): documents of distinct routes
DocLists ==
    { s \in UNION { [1..n -> SidebarDocs] : n \in 0..MaxDocs } :
        \A i, j \in 1..Len(s) : i # j => s[i].route # s[j].route }

Orders ==
    { <<>>,
      << <<"p", "/", "*">> >>,
      << <<"p", "/", "*">>, <<"g", "/", "*">> >>,
      << <<"z", "*">>, <<"b", ".", "m", "d">> >>,
      << <<"b", ".", "m", "d">>, <<"g">> >>,
      << <<"y", ".", "m", "d", "o", "c">>, <<"g", "*">>, <<"*", "/", "*">> >>,
      << <<"*">> >> }

SidebarInit ==
    /\ ServerOff
    /\ ToolsOff
    /\ rin = NoInput
    /\ rout = <<>>
    /\ sbIn \in [docs : DocLists, order : Orders]
    /\ sbOut = NoSidebar
    /\ lkIn = NoLinkInput
    /\ lkOut = NoLinkResult
    /\ xurls = NoUrls
    /\ xchk = NoChecks

GenerateSidebar ==
    /\ ~sbOut.done
    /\ sbOut' = [done |-> TRUE, items |-> generateSidebar(sbIn.docs, sbIn.order)]
    /\ UNCHANGED <<sbIn, serverVars, routeVars, linkVars, extVars, toolVars>>

SidebarNext == GenerateSidebar

SpecSidebar == SidebarInit /\ [][SidebarNext]_vars

(***************************************************************************)
(* Links (src/content/types.ts).  A link is [href, type, target, hash]; a  *)
(* target or hash that is absent is the empty sequence, which the code     *)
(* reads as it reads the empty string.                                     *)
(***************************************************************************)
RECURSIVE SplitOn(_, _, _, _)
\* s.split(c): the parts of s between the occurrences of c, from position i on
SplitOn(s, c, i, cur) ==
    IF i > Len(s) THEN <<cur>>
    ELSE IF s[i] = c THEN <<cur>> \o SplitOn(s, c, i + 1, <<>>)
    ELSE SplitOn(s, c, i + 1, Append(cur, s[i]))

\* extractLinks: the type of a link by the pattern of its href
IsInternalHref(href) ==
    /\ ~StartsWith(href, <<"h", "t", "t", "p">>)
    /\ ~StartsWith(href, <<"/", "/">>)
    /\ ~StartsWith(href, <<"m", "a", "i", "l", "t", "o", ":">>)
    /\ ~StartsWith(href, <<"#">>)

\* extractLinks: the Link made of a link node of the document
LinkOfHref(href) ==
    LET parts == SplitOn(href, "#", 1, <<>>)
    IN  IF IsInternalHref(href)
        THEN [href |-> href, type |-> "internal", target |-> parts[1],
              hash |-> IF Len(parts) > 1 THEN parts[2] ELSE <<>>]
        ELSE [href |-> href, type |-> "external", target |-> <<>>, hash |-> <<>>]

\* extractLinks: the links of the nodes that have an href and a text
extractLinks(nodes) ==
    LET Kept(node) == node.href # <<>> /\ node.text # <<>>
        kept == SelectSeq(nodes, Kept)
    IN  IF kept = <<>> THEN <<>>
        ELSE [k \in 1..Len(kept) |-> LinkOfHref(kept[k].href)]

(***************************************************************************)
(* The link validator (content/links.ts, here unnamed/part_003).           *)
(***************************************************************************)
\* a check that leaves the anchor of the link out
checkInternalLink_NoAnchorCheck(link, index) ==
    LET slashed == IF StartsWith(link.target, <<"/">>) THEN link.target
                   ELSE <<"/">> \o link.target
        targetRoute == IF EndsWith(slashed, <<"/">>) /\ slashed # <<"/">>
                       THEN SubSeq(slashed, 1, Len(slashed) - 1)
                       ELSE slashed
    IN  link.target # <<>> /\ targetRoute \in DOMAIN index.byRoute

checkInternalLink(link, index) ==
    IF link.target = <<>> THEN FALSE
    ELSE LET slashed == IF StartsWith(link.target, <<"/">>) THEN link.target
                        ELSE <<"/">> \o link.target
             targetRoute == IF EndsWith(slashed, <<"/">>) /\ slashed # <<"/">>
                            THEN SubSeq(slashed, 1, Len(slashed) - 1)
                            ELSE slashed
         IN  IF targetRoute \notin DOMAIN index.byRoute THEN FALSE
             ELSE IF link.hash # <<>>
             THEN \E k \in 1..Len(index.byRoute[targetRoute].headings) :
                      index.byRoute[targetRoute].headings[k] = link.hash
             ELSE TRUE

NoLinks == [broken |-> <<>>, valid |-> <<>>, external |-> <<>>]

RECURSIVE CheckLinksOf(_, _, _, _)
\* the inner loop of checkInternalLinks: the links of one document, from the n-th on
CheckLinksOf(result, links, index, n) ==
    IF n > Len(links) THEN result
    ELSE LET link == links[n]
         IN  CheckLinksOf(
                 IF link.type = "external"
                 THEN [result EXCEPT !.external = Append(@, link)]
                 ELSE IF link.type = "internal"
                 THEN (IF checkInternalLink(link, index)
                       THEN [result EXCEPT !.valid = Append(@, link)]
                       ELSE [result EXCEPT !.broken = Append(@, link)])
                 ELSE result,
                 links, index, n + 1)

RECURSIVE CheckDocs(_, _, _, _)
\* the outer loop: the values of byRoute in the order of its keys
CheckDocs(result, routes, index, n) ==
    IF n > Len(routes) THEN result
    ELSE CheckDocs(CheckLinksOf(result, index.byRoute[routes[n]].links, index, 1),
                   routes, index, n + 1)

\* index.byRoute.values() iterates in the order the keys were first set:
\* routes is that order
checkInternalLinks(index, routes) == CheckDocs(NoLinks, routes, index, 1)

(***************************************************************************)
(* The link check on its own: a content root is a list of files in the     *)
(* order the glob finds them, each with the link nodes and the heading ids *)
(* of its text; the index is built from it as buildContentIndex builds it, *)
(* and checkInternalLinks is applied to the index.  In the "simple"        *)
(* variant renderMarkdocToHtml (src/content/markdoc.ts) extracts nothing:  *)
(* every document has no links and no headings.                            *)
(***************************************************************************)
MaxLinks == 2

HrefRelativeFile == <<"g", "u", "i", "d", "e", "/", "b", ".", "m", "d">>
HrefRoute == <<"/", "g", "u", "i", "d", "e", "/", "b">>
HrefTrailingSlash == <<"g", "u", "i", "d", "e", "/", "b", "/">>
HrefAnchor == <<"/", "g", "u", "i", "d", "e", "/", "b", "#", "i", "n", "s", "t", "a", "l", "l">>
HrefNoAnchor == <<"/", "g", "u", "i", "d", "e", "/", "b", "#", "m", "i", "s", "s", "i", "n", "g">>
HrefNowhere == <<"/", "n", "o", "p", "e">>
HrefExternal == <<"h", "t", "t", "p", ":", "/", "/", "e">>
HrefRoot == <<"/">>

LinkNode(href) == [href |-> href, text |-> <<"t">>]

\* a link node without text, which extractLinks skips
NodeNoText == [href |-> HrefNowhere, text |-> <<>>]

LinkNodes ==
    { LinkNode(h) : h \in {HrefRelativeFile, HrefRoute, HrefTrailingSlash, HrefAnchor,
                           HrefNoAnchor, HrefNowhere, HrefExternal, HrefRoot} }
    \cup {NodeNoText}

NodeLists == UNION { [1..n -> LinkNodes] : n \in 0..MaxLinks }

FIndex == DocsDir \o <<"/", "i", "n", "d", "e", "x", ".", "m", "d">>
FGuideA == DocsDir \o <<"/", "g", "u", "i", "d", "e", "/", "a", ".", "m", "d">>
FGuideB == DocsDir \o <<"/", "g", "u", "i", "d", "e", "/", "b", ".", "m", "d">>
FGuideBIndex == DocsDir \o <<"/", "g", "u", "i", "d", "e", "/", "b", "/", "i", "n", "d", "e", "x", ".", "m", "d">>
LinkFiles == {FIndex, FGuideA, FGuideB, FGuideBIndex}

HeadingInstall == <<"i", "n", "s", "t", "a", "l", "l">>

SourceFile(filePath, nodes, headings) ==
    [path |-> filePath, nodes |-> nodes, headings |-> headings]

\* the texts a file of the content root can have
SourceFiles ==
    {SourceFile(FIndex, <<>>, <<>>)}
    \cup {SourceFile(FGuideA, nodes, <<>>) : nodes \in NodeLists}
    \cup {SourceFile(FGuideB, nodes, <<HeadingInstall>>) :
            nodes \in {<<>>, <<LinkNode(HrefExternal)>>}}
    \cup {SourceFile(FGuideBIndex, <<LinkNode(HrefNowhere)>>, <<>>)}

TextsOf(filePath) == {file \in SourceFiles : file.path = filePath}

\* the glob: files of distinct paths, in any order
PathLists ==
    { s \in UNION { [1..n -> LinkFiles] : n \in 0..Cardinality(LinkFiles) } :
        \A i, j \in 1..Len(s) : i # j => s[i] # s[j] }

ContentRoots ==
    { IF paths = <<>> THEN <<>>
      ELSE [k \in 1..Len(paths) |->
               IF paths[k] = FIndex THEN i
               ELSE IF paths[k] = FGuideA THEN a
               ELSE IF paths[k] = FGuideB THEN b
               ELSE c] :
        paths \in PathLists, i \in TextsOf(FIndex), a \in TextsOf(FGuideA),
        b \in TextsOf(FGuideB), c \in TextsOf(FGuideBIndex) }

\* loadDocument: the document of a file
LinkDocMeta(file, which) ==
    [path |-> file.path, route |-> generateRoute(file.path, DocsDir), ver |-> 1,
     links |-> IF which = "full" THEN extractLinks(file.nodes) ELSE <<>>,
     headings |-> IF which = "full" THEN file.headings ELSE <<>>]

RECURSIVE BuildFrom(_, _, _, _)
\* buildContentIndex over files that all load and none of which is ignored
BuildFrom(index, files, which, n) ==
    IF n > Len(files) THEN index
    ELSE BuildFrom(InsertDoc(index, LinkDocMeta(files[n], which)), files, which, n + 1)

RECURSIVE RouteOrder(_, _)
\* the keys of byRoute in the order they were first set
RouteOrder(files, n) ==
    IF n = 0 THEN <<>>
    ELSE LET before == RouteOrder(files, n - 1)
             route == generateRoute(files[n].path, DocsDir)
         IN  IF \E k \in 1..Len(before) : before[k] = route
             THEN before
             ELSE Append(before, route)

LinkInit ==
    /\ ServerOff
    /\ ToolsOff
    /\ rin = NoInput
    /\ rout = <<>>
    /\ sbIn = NoSidebarInput
    /\ sbOut = NoSidebar
    /\ lkIn \in [files : ContentRoots, markdoc : {"full", "simple"}]
    /\ lkOut = NoLinkResult
    /\ xurls = NoUrls
    /\ xchk = NoChecks

\* the check and build commands: buildContentIndex(dir, config.ignore)
LinkBuild ==
    /\ lkOut.stage = "none"
    /\ LET index == BuildFrom([byRoute |-> EmptyMap, byPath |-> EmptyMap],
                              lkIn.files, lkIn.markdoc, 1)
       IN  lkOut' = [stage |-> "built", byRoute |-> index.byRoute,
                     byPath |-> index.byPath, result |-> NoLinks]
    /\ UNCHANGED <<lkIn, serverVars, routeVars, sidebarVars, extVars, toolVars>>

\* the check and build commands: checkInternalLinks(contentIndex)
LinkCheck ==
    /\ lkOut.stage = "built"
    /\ lkOut' = [lkOut EXCEPT
                    !.stage = "checked",
                    !.result = checkInternalLinks(
                                   [byRoute |-> lkOut.byRoute, byPath |-> lkOut.byPath],
                                   RouteOrder(lkIn.files, Len(lkIn.files)))]
    /\ UNCHANGED <<lkIn, serverVars, routeVars, sidebarVars, extVars, toolVars>>

LinkNext ==
    \/ LinkBuild
    \/ LinkCheck

SpecLinks == LinkInit /\ [][LinkNext]_vars

(***************************************************************************)
(* The external link check: checkExternalLinks and, per URL, one call of   *)
(* checkSingleExternalLink (unnamed/part_003).  fetch resolves with a      *)
(* response whatever its HTTP status is, and rejects on a network error or *)
(* when the timer aborts the request.                                      *)
(***************************************************************************)
batchSize == 10

Statuses == {200, 399, 400, 404, 405}
Failures == {"error", "timeout"}
NoOutcome == [kind |-> "none", status |-> 0]
Responded(s) == [kind |-> "status", status |-> s]
Thrown(cause) == [kind |-> cause, status |-> 0]

\* the status rule with 400 let in
IsValidStatus_UpTo400(status) == status >= 200 /\ status <= 400

\* response.status >= 200 && response.status < 400
IsValidStatus(status) == status >= 200 /\ status < 400

\* a call of checkSingleExternalLink that has not been made yet
NewCheck(url) ==
    [url |-> url, phase |-> "idle", requests |-> <<>>,
     head |-> NoOutcome, get |-> NoOutcome, value |-> FALSE]

Min(a, b) == IF a < b THEN a ELSE b

\* the slice with no end: every URL from i on
BatchOf_AllRemaining(i, n) == (i + 1)..n

\* the positions of urls.slice(i, i + batchSize)
BatchOf(i, n) == (i + 1)..Min(i + batchSize, n)

\* batch.map(url => checkSingleExternalLink(url, timeoutMs)): every call of
\* the batch runs up to its first await, the HEAD request
StartBatch(checks, i) ==
    [k \in 1..Len(checks) |->
        IF k \in BatchOf(i, Len(checks))
        THEN [checks[k] EXCEPT !.phase = "head", !.requests = <<"HEAD">>]
        ELSE checks[k]]

\* forEach with the test of result.value left out: every fulfilled result is valid
Collect_FulfilledIsValid(checks, k, end, want) ==
    IF want THEN [j \in 1..(end - k + 1) |-> checks[k + j - 1].url] ELSE <<>>

RECURSIVE Collect(_, _, _, _)
\* results.forEach: the URLs of the batch whose result is, or is not,
\* fulfilled with true, in the order of the batch
Collect(checks, k, end, want) ==
    IF k > end THEN <<>>
    ELSE (IF checks[k].value = want THEN <<checks[k].url>> ELSE <<>>)
            \o Collect(checks, k + 1, end, want)

MaxUrls == 2
UrlNames == {"u", "v"}
UrlLists == UNION {[1..n -> UrlNames] : n \in 0..MaxUrls}

\* what fetch can resolve with for a URL: the servers behind u and v answer
\* with any status, every other server with 200
Answers(url) == IF url \in UrlNames THEN Statuses ELSE {200}

\* what fetch can reject with for a URL: the requests to u and v can fail or
\* run into the timeout, the others cannot
Faults(url) == IF url \in UrlNames THEN Failures ELSE {}

ExtInit ==
    /\ ServerOff
    /\ ToolsOff
    /\ rin = NoInput
    /\ rout = <<>>
    /\ sbIn = NoSidebarInput
    /\ sbOut = NoSidebar
    /\ lkIn = NoLinkInput
    /\ lkOut = NoLinkResult
    /\ xurls \in UrlLists
    /\ xchk = NoChecks

\* the call of checkExternalLinks, up to its first await
CheckExternalLinks ==
    /\ xchk.stage = "none"
    /\ LET checks == [k \in 1..Len(xurls) |-> NewCheck(xurls[k])]
       IN  xchk' = [stage |-> IF Len(xurls) = 0 THEN "returned" ELSE "awaiting",
                    i |-> 0,
                    checks |-> StartBatch(checks, 0),
                    valid |-> <<>>, broken |-> <<>>]
    /\ UNCHANGED <<serverVars, routeVars, sidebarVars, linkVars, xurls, toolVars>>

\* the HEAD request of a check gets a response
HeadResponds ==
    /\ xchk.stage = "awaiting"
    /\ \E k \in 1..Len(xchk.checks) : \E s \in Answers(xchk.checks[k].url) :
         /\ xchk.checks[k].phase = "head"
         /\ xchk' = [xchk EXCEPT !.checks[k] =
                        [@ EXCEPT !.phase = "settled", !.head = Responded(s),
                                  !.value = IsValidStatus(s)]]
    /\ UNCHANGED <<serverVars, routeVars, sidebarVars, linkVars, xurls, toolVars>>

\* one AbortController for the whole batch: an abort rejects every pending HEAD
HeadThrows_SharedController ==
    /\ xchk.stage = "awaiting"
    /\ \E k \in 1..Len(xchk.checks) : \E cause \in Faults(xchk.checks[k].url) :
         /\ xchk.checks[k].phase = "head"
         /\ xchk' = [xchk EXCEPT !.checks =
                        [j \in 1..Len(xchk.checks) |->
                            IF xchk.checks[j].phase = "head"
                            THEN [xchk.checks[j] EXCEPT !.phase = "get",
                                                        !.head = Thrown(cause),
                                                        !.requests = Append(@, "GET")]
                            ELSE xchk.checks[j]]]
    /\ UNCHANGED <<serverVars, routeVars, sidebarVars, linkVars, xurls, toolVars>>

\* the HEAD request of a check fails or is aborted: the catch block issues GET
HeadThrows ==
    /\ xchk.stage = "awaiting"
    /\ \E k \in 1..Len(xchk.checks) : \E cause \in Faults(xchk.checks[k].url) :
         /\ xchk.checks[k].phase = "head"
         /\ xchk' = [xchk EXCEPT !.checks[k] =
                        [@ EXCEPT !.phase = "get", !.head = Thrown(cause),
                                  !.requests = Append(@, "GET")]]
    /\ UNCHANGED <<serverVars, routeVars, sidebarVars, linkVars, xurls, toolVars>>

\* the GET request of a check gets a response
GetResponds ==
    /\ xchk.stage = "awaiting"
    /\ \E k \in 1..Len(xchk.checks) : \E s \in Answers(xchk.checks[k].url) :
         /\ xchk.checks[k].phase = "get"
         /\ xchk' = [xchk EXCEPT !.checks[k] =
                        [@ EXCEPT !.phase = "settled", !.get = Responded(s),
                                  !.value = IsValidStatus(s)]]
    /\ UNCHANGED <<serverVars, routeVars, sidebarVars, linkVars, xurls, toolVars>>

\* the GET request of a check fails or is aborted: the inner catch returns false
GetThrows ==
    /\ xchk.stage = "awaiting"
    /\ \E k \in 1..Len(xchk.checks) : \E cause \in Faults(xchk.checks[k].url) :
         /\ xchk.checks[k].phase = "get"
         /\ xchk' = [xchk EXCEPT !.checks[k] =
                        [@ EXCEPT !.phase = "settled", !.get = Thrown(cause),
                                  !.value = FALSE]]
    /\ UNCHANGED <<serverVars, routeVars, sidebarVars, linkVars, xurls, toolVars>>

\* Promise.allSettled resolves: the results of the batch are pushed, and the
\* loop starts the next batch or ends
AllSettled ==
    /\ xchk.stage = "awaiting"
    /\ LET n == Len(xchk.checks)
           end == Min(xchk.i + batchSize, n)
           next == xchk.i + batchSize
       IN  /\ \A k \in BatchOf(xchk.i, n) : xchk.checks[k].phase = "settled"
           /\ xchk' = [stage |-> IF next < n THEN "awaiting" ELSE "returned",
                       i |-> next,
                       checks |-> IF next < n THEN StartBatch(xchk.checks, next)
                                  ELSE xchk.checks,
                       valid |-> xchk.valid \o Collect(xchk.checks, xchk.i + 1, end, TRUE),
                       broken |-> xchk.broken \o Collect(xchk.checks, xchk.i + 1, end, FALSE)]
    /\ UNCHANGED <<serverVars, routeVars, sidebarVars, linkVars, xurls, toolVars>>

ExtNext ==
    \/ CheckExternalLinks
    \/ HeadResponds
    \/ HeadThrows
    \/ GetResponds
    \/ GetThrows
    \/ AllSettled

SpecExt == ExtInit /\ [][ExtNext]_vars

MaxBatches == 2

\* the URL at position k of a long list: u and v where the list places them,
\* a URL of its own elsewhere
UrlAt(k, place) ==
    IF k = place.u THEN "u" ELSE IF k = place.v THEN "v" ELSE "s" \o ToString(k)

\* lists that fill MaxBatches - 1 batches and none, one or two places of the
\* next; u and v sit at both sides of the last boundary, or u leads the list
BatchLists ==
    LET full == batchSize * (MaxBatches - 1)
    IN  {[k \in 1..n |-> UrlAt(k, place)] :
            n \in full..(full + 2),
            place \in {[u |-> full, v |-> full + 1], [u |-> 1, v |-> full + 1]}}

BatchInit ==
    /\ ServerOff
    /\ ToolsOff
    /\ rin = NoInput
    /\ rout = <<>>
    /\ sbIn = NoSidebarInput
    /\ sbOut = NoSidebar
    /\ lkIn = NoLinkInput
    /\ lkOut = NoLinkResult
    /\ xurls \in BatchLists
    /\ xchk = NoChecks

SpecBatches == BatchInit /\ [][ExtNext]_vars

\* every pending fetch resolves, rejects or is aborted by its timer, and the
\* continuation of a settled promise runs: checkExternalLinks over short and
\* long lists
SpecExtFair == (ExtInit \/ BatchInit) /\ [][ExtNext]_vars /\ WF_vars(ExtNext)

(***************************************************************************)
(* The ignore matcher as a function of its own (src/config.ts): one call   *)
(* of isIgnoredPath on a file below the working directory.                 *)
(***************************************************************************)
PathDraftsX == Cwd \o <<"/", "d", "r", "a", "f", "t", "s", "/", "x", ".", "m", "d">>
PathDraftsSubY == Cwd \o <<"/", "d", "r", "a", "f", "t", "s", "/", "s", "u", "b", "/", "y", ".", "m", "d">>
PathNotesDraft == Cwd \o <<"/", "n", "o", "t", "e", "s", ".", "d", "r", "a", "f", "t", ".", "m", "d">>
PathMyDraft == Cwd \o <<"/", "d", "/", "m", "y", "d", "r", "a", "f", "t", "-", "m", "d", ".", "m", "d">>
PathA == Cwd \o <<"/", "d", "/", "a", ".", "m", "d">>
PathXB == Cwd \o <<"/", "d", "/", "x", "/", "b", ".", "m", "d">>
IgnorePaths == {PathDraftsX, PathDraftsSubY, PathNotesDraft, PathMyDraft, PathA, PathXB}

PatDraftsGlob == <<"d", "r", "a", "f", "t", "s", "/", "*", "*">>
PatDraftMd == <<"*", ".", "d", "r", "a", "f", "t", ".", "m", "d">>
PatDrafts == <<"d", "r", "a", "f", "t", "s">>
PatXGlob == <<"x", "/", "*">>
PatAMd == <<"a", ".", "m", "d">>
PatXMd == <<"x", ".", "m", "d">>
IgnorePatterns == {PatDraftsGlob, PatDraftMd, PatDrafts, PatXGlob, PatAMd, PatXMd}

MaxPatterns == 2
PatternLists == UNION {[1..n -> IgnorePatterns] : n \in 0..MaxPatterns}

IgnoreInit ==
    /\ ServerOff
    /\ rin = NoInput
    /\ rout = <<>>
    /\ sbIn = NoSidebarInput
    /\ sbOut = NoSidebar
    /\ lkIn = NoLinkInput
    /\ lkOut = NoLinkResult
    /\ xurls = NoUrls
    /\ xchk = NoChecks
    /\ igIn \in [stage : {"given"}, path : IgnorePaths, patterns : PatternLists]
    /\ igOut = NoCall
    /\ cfIn = NoCall
    /\ cfOut = NoCall
    /\ exIn = NoCall
    /\ exOut = NoCall
    /\ bIn = NoCall
    /\ bOut = NoCall

\* one call of isIgnoredPath(filePath, ignorePatterns)
IsIgnored ==
    /\ igOut = NoCall
    /\ igOut' = [stage |-> "returned", ignored |-> isIgnoredPath(igIn.path, igIn.patterns)]
    /\ UNCHANGED igIn
    /\ UNCHANGED <<serverVars, routeVars, sidebarVars, linkVars, extVars,
                   configVars, extractVars, buildVars>>

IgnoreNext == IsIgnored

SpecIgnore == IgnoreInit /\ [][IgnoreNext]_vars

(***************************************************************************)
(* loadConfig and mergeConfig (src/config.ts).  A configuration is a       *)
(* function of its fields, named group.field; what a file holds is a       *)
(* function of the fields it sets.  A candidate file is absent, or cannot  *)
(* be used ("syntax": the parser throws; "empty": the parser returns no    *)
(* object and mergeConfig throws on it), or holds fields.                  *)
(***************************************************************************)
DEFAULT_CONFIG ==
    [site_title |-> "My Docs", site_baseUrl |-> "/", sidebar_order |-> <<>>,
     linkcheck_enabled |-> TRUE, linkcheck_externalTimeoutMs |-> 5000,
     ignore |-> <<>>]

configFiles == <<"markrealm.config.yaml", "markrealm.config.yml", "markrealm.config.json">>

\* the spreads of mergeConfig: a field the file sets replaces the default
mergeConfig(defaultConfig, userConfig) ==
    [f \in DOMAIN defaultConfig |->
        IF f \in DOMAIN userConfig THEN userConfig[f] ELSE defaultConfig[f]]

Unusable == {"syntax", "empty"}

\* what the candidate file of position n can hold: its title tells the files apart
FileStates(n) ==
    {[kind |-> "absent"], [kind |-> "syntax"], [kind |-> "empty"],
     [kind |-> "parsed", config |-> [site_title |-> configFiles[n]]],
     [kind |-> "parsed", config |-> [linkcheck_enabled |-> FALSE, ignore |-> <<"x">>,
                                     site_baseUrl |-> configFiles[n]]],
     [kind |-> "parsed", config |-> [k \in {} |-> 0]]}

RECURSIVE LoadFrom(_, _, _)
\* the loop over configFiles from position n on, warned being the files
\* a warning was logged for
LoadFrom(files, n, warned) ==
    IF n > Len(configFiles)
    THEN [stage |-> "returned", config |-> DEFAULT_CONFIG, warned |-> warned, used |-> 0]
    ELSE IF files[n].kind = "absent" THEN LoadFrom(files, n + 1, warned)
    ELSE IF files[n].kind \in Unusable THEN LoadFrom(files, n + 1, Append(warned, n))
    ELSE [stage |-> "returned", config |-> mergeConfig(DEFAULT_CONFIG, files[n].config),
          warned |-> warned, used |-> n]

loadConfig(files) == LoadFrom(files, 1, <<>>)

ConfigInit ==
    /\ ServerOff
    /\ rin = NoInput
    /\ rout = <<>>
    /\ sbIn = NoSidebarInput
    /\ sbOut = NoSidebar
    /\ lkIn = NoLinkInput
    /\ lkOut = NoLinkResult
    /\ xurls = NoUrls
    /\ xchk = NoChecks
    /\ igIn = NoCall
    /\ igOut = NoCall
    /\ \E a \in FileStates(1), b \in FileStates(2), c \in FileStates(3) :
          cfIn = [stage |-> "given", files |-> <<a, b, c>>]
    /\ cfOut = NoCall
    /\ exIn = NoCall
    /\ exOut = NoCall
    /\ bIn = NoCall
    /\ bOut = NoCall

\* one call of loadConfig(docsDir)
LoadConfig ==
    /\ cfOut = NoCall
    /\ cfOut' = loadConfig(cfIn.files)
    /\ UNCHANGED cfIn
    /\ UNCHANGED <<serverVars, routeVars, sidebarVars, linkVars, extVars,
                   ignoreVars, extractVars, buildVars>>

ConfigNext == LoadConfig

SpecConfig == ConfigInit /\ [][ConfigNext]_vars

(***************************************************************************)
(* The build and check commands (src/build.ts, src/config.ts): the index   *)
(* is built and the links are checked as in the link check above; the      *)
(* result of checkExternalLinks is any split of the URLs into valid and    *)
(* broken.  The output directory is the set of the files in it; template   *)
(* and style sheet of the installation are in place.                       *)
(***************************************************************************)
\* the decision with the broken external URLs counted in
totalBroken_WithExternal(linkResult, externalResult) ==
    Len(linkResult.broken) + Len(externalResult.broken)

\* const totalBroken = linkResult.broken.length
totalBroken(linkResult, externalResult) == Len(linkResult.broken)

\* every page at the top of the output directory
outputPath_Flat(route) == <<"i", "n", "d", "e", "x", ".", "h", "t", "m", "l">>

\* renderPage: where the page of a route is written, relative to outDir
outputPath(route) ==
    IF route = <<"/">> THEN <<"i", "n", "d", "e", "x", ".", "h", "t", "m", "l">>
    ELSE SubSeq(route, 2, Len(route)) \o <<"/", "i", "n", "d", "e", "x", ".", "h", "t", "m", "l">>

StylesCss == <<"s", "t", "y", "l", "e", "s", ".", "c", "s", "s">>
NotFoundHtml == <<"4", "0", "4", ".", "h", "t", "m", "l">>
OldFile == <<"o", "l", "d", ".", "h", "t", "m", "l">>

NoDir == [exists |-> FALSE, files |-> {}]
OutDirs == {NoDir, [exists |-> TRUE, files |-> {OldFile}]}

NoExternal == [valid |-> <<>>, broken |-> <<>>]

\* the content roots of the commands: none; index.md, guide/a.md with up to
\* two links, guide/b.md with or without an external link; two files of one route
BuildRoots ==
    {<<>>}
    \cup { <<SourceFile(FIndex, <<>>, <<>>), a, b>> :
             a \in {SourceFile(FGuideA, nodes, <<>>) :
                      nodes \in {<<>>, <<LinkNode(HrefRoute)>>, <<LinkNode(HrefNowhere)>>,
                                 <<LinkNode(HrefExternal)>>,
                                 <<LinkNode(HrefNowhere), LinkNode(HrefExternal)>>}},
             b \in TextsOf(FGuideB) }
    \cup { <<b, c>> : b \in TextsOf(FGuideB), c \in TextsOf(FGuideBIndex) }

RECURSIVE Hrefs(_, _)
\* linkResult.external.map(link => link.href)
Hrefs(links, n) ==
    IF n > Len(links) THEN <<>> ELSE <<links[n].href>> \o Hrefs(links, n + 1)

RECURSIVE SplitUrls(_, _, _, _)
\* the URLs from position n on that the verdicts call valid (want), or broken
SplitUrls(urls, verdicts, n, want) ==
    IF n > Len(urls) THEN <<>>
    ELSE (IF verdicts[n] = want THEN <<urls[n]>> ELSE <<>>)
            \o SplitUrls(urls, verdicts, n + 1, want)

BuildInit ==
    /\ ServerOff
    /\ rin = NoInput
    /\ rout = <<>>
    /\ sbIn = NoSidebarInput
    /\ sbOut = NoSidebar
    /\ lkIn = NoLinkInput
    /\ lkOut = NoLinkResult
    /\ xurls = NoUrls
    /\ xchk = NoChecks
    /\ igIn = NoCall
    /\ igOut = NoCall
    /\ cfIn = NoCall
    /\ cfOut = NoCall
    /\ exIn = NoCall
    /\ exOut = NoCall
    /\ bIn \in [stage : {"given"}, command : {"build", "check"}, files : BuildRoots,
                markdoc : {"full", "simple"}, strict : BOOLEAN, enabled : BOOLEAN,
                out : OutDirs]
    /\ bOut = [pos |-> "start", byRoute |-> EmptyMap, byPath |-> EmptyMap,
               routes |-> <<>>, linkResult |-> NoLinks, externalResult |-> NoExternal,
               out |-> bIn.out, written |-> <<>>, code |-> "running"]

BuildRest == <<serverVars, routeVars, sidebarVars, linkVars, extVars,
               ignoreVars, configVars, extractVars, bIn>>

\* loadConfig(dir) and buildContentIndex(dir, config.ignore)
BuildIndex ==
    /\ bOut.pos = "start"
    /\ LET index == BuildFrom([byRoute |-> EmptyMap, byPath |-> EmptyMap],
                              bIn.files, bIn.markdoc, 1)
       IN  bOut' = [bOut EXCEPT !.pos = "indexed", !.byRoute = index.byRoute,
                                !.byPath = index.byPath,
                                !.routes = RouteOrder(bIn.files, Len(bIn.files))]
    /\ UNCHANGED BuildRest

\* checkInternalLinks(contentIndex)
BuildCheckLinks ==
    /\ bOut.pos = "indexed"
    /\ bOut' = [bOut EXCEPT
                   !.pos = "checked",
                   !.linkResult = checkInternalLinks(
                                      [byRoute |-> bOut.byRoute, byPath |-> bOut.byPath],
                                      bOut.routes)]
    /\ UNCHANGED BuildRest

\* config.linkcheck.enabled && linkResult.external.length > 0
WantsExternal == bIn.enabled /\ Len(bOut.linkResult.external) > 0

\* checkExternalLinks(externalUrls, timeout) and its report
BuildCheckExternal ==
    /\ bOut.pos = "checked"
    /\ WantsExternal
    /\ LET urls == Hrefs(bOut.linkResult.external, 1)
       IN  \E verdicts \in [1..Len(urls) -> BOOLEAN] :
              bOut' = [bOut EXCEPT
                          !.pos = "external",
                          !.externalResult = [valid |-> SplitUrls(urls, verdicts, 1, TRUE),
                                              broken |-> SplitUrls(urls, verdicts, 1, FALSE)]]
    /\ UNCHANGED BuildRest

\* the links are checked and the decision is next
Checked ==
    \/ bOut.pos = "external"
    \/ bOut.pos = "checked" /\ ~WantsExternal

\* totalBroken > 0 && strict: process.exit(1)
BuildFails ==
    /\ Checked
    /\ totalBroken(bOut.linkResult, bOut.externalResult) > 0 /\ bIn.strict
    /\ bOut' = [bOut EXCEPT !.pos = "exited", !.code = "1"]
    /\ UNCHANGED BuildRest

\* checkCommand returns
CheckPasses ==
    /\ Checked
    /\ bIn.command = "check"
    /\ ~(totalBroken(bOut.linkResult, bOut.externalResult) > 0 /\ bIn.strict)
    /\ bOut' = [bOut EXCEPT !.pos = "done", !.code = "0"]
    /\ UNCHANGED BuildRest

\* buildStaticSite goes on: fs.rmSync(out), fs.mkdirSync(out), copyStaticAssets(out)
BuildPrepare ==
    /\ Checked
    /\ bIn.command = "build"
    /\ ~(totalBroken(bOut.linkResult, bOut.externalResult) > 0 /\ bIn.strict)
    /\ bOut' = [bOut EXCEPT !.pos = "rendering",
                            !.out = [exists |-> TRUE, files |-> {StylesCss}]]
    /\ UNCHANGED BuildRest

\* renderPage for the next document of contentIndex.byRoute
BuildRenderPage ==
    /\ bOut.pos = "rendering"
    /\ Len(bOut.written) < Len(bOut.routes)
    /\ LET route == bOut.routes[Len(bOut.written) + 1]
           file == outputPath(bOut.byRoute[route].route)
       IN  bOut' = [bOut EXCEPT !.out.files = bOut.out.files \cup {file},
                                !.written = Append(bOut.written, file)]
    /\ UNCHANGED BuildRest

\* generate404Page, and buildStaticSite returns
BuildFinish ==
    /\ bOut.pos = "rendering"
    /\ Len(bOut.written) = Len(bOut.routes)
    /\ bOut' = [bOut EXCEPT !.pos = "done", !.code = "0",
                            !.out.files = bOut.out.files \cup {NotFoundHtml}]
    /\ UNCHANGED BuildRest

BuildNext ==
    \/ BuildIndex
    \/ BuildCheckLinks
    \/ BuildCheckExternal
    \/ BuildFails
    \/ CheckPasses
    \/ BuildPrepare
    \/ BuildRenderPage
    \/ BuildFinish

SpecBuild == BuildInit /\ [][BuildNext]_vars

(***************************************************************************)
(* extractLinks as a function of its own (src/build.ts): the href of a     *)
(* link node is put together from a prefix, a path and a fragment.         *)
(***************************************************************************)
HrefPrefixes ==
    {<<>>, <<"/">>, <<".", "/">>, <<".", ".", "/">>, <<"h", "t", "t", "p", ":", "/", "/">>, <<"h", "t", "t", "p", "s", ":", "/", "/">>, <<"/", "/">>, <<"m", "a", "i", "l", "t", "o", ":">>, <<"f", "t", "p", ":", "/", "/">>,
     <<"t", "e", "l", ":">>, <<"h", "t", "t", "p">>}
HrefPaths == {<<>>, <<"a">>, <<"a", ".", "m", "d">>}
HrefFragments == {<<>>, <<"#", "s">>, <<"#">>, <<"#", "s", "#", "t">>}
LinkTexts == {<<>>, <<"t">>}

ExtractInit ==
    /\ ServerOff
    /\ rin = NoInput
    /\ rout = <<>>
    /\ sbIn = NoSidebarInput
    /\ sbOut = NoSidebar
    /\ lkIn = NoLinkInput
    /\ lkOut = NoLinkResult
    /\ xurls = NoUrls
    /\ xchk = NoChecks
    /\ igIn = NoCall
    /\ igOut = NoCall
    /\ cfIn = NoCall
    /\ cfOut = NoCall
    /\ \E pre \in HrefPrefixes, p \in HrefPaths, frag \in HrefFragments, text \in LinkTexts :
          exIn = [stage |-> "given", href |-> pre \o p \o frag, text |-> text]
    /\ exOut = NoCall
    /\ bIn = NoCall
    /\ bOut = NoCall

\* one call of extractLinks on a document whose one link node is exIn
ExtractLinks ==
    /\ exOut = NoCall
    /\ exOut' = [stage |-> "returned",
                 links |-> extractLinks(<<[href |-> exIn.href, text |-> exIn.text]>>)]
    /\ UNCHANGED exIn
    /\ UNCHANGED <<serverVars, routeVars, sidebarVars, linkVars, extVars,
                   ignoreVars, configVars, buildVars>>

ExtractNext == ExtractLinks

SpecExtract == ExtractInit /\ [][ExtractNext]_vars

(***************************************************************************)
(* Properties of the content index.                                        *)
(***************************************************************************)
RouteOf(filePath) == generateRoute(filePath, DocsDir)

\* no operation on the index is under way
Quiescent == phase = "serving" /\ pc = "idle" /\ microtasks = <<>>

\* the index holds docMeta under both of its keys
HeldUnderBothKeys(docMeta) ==
    /\ docMeta.path \in DOMAIN byPath
    /\ byPath[docMeta.path] = docMeta
    /\ docMeta.route \in DOMAIN byRoute
    /\ byRoute[docMeta.route] = docMeta

\* neither map holds a document of this path
AbsentFromBothMaps(filePath) ==
    /\ filePath \notin DOMAIN byPath
    /\ \A r \in DOMAIN byRoute : byRoute[r].path # filePath

\* C1: after any sequence of build, update and remove calls the two maps have
\* the same number of entries and every document of either map is the
\* document the other map holds under its other key.
C1_IndexConsistent ==
    Quiescent =>
        /\ Cardinality(DOMAIN byRoute) = Cardinality(DOMAIN byPath)
        /\ \A p \in DOMAIN byPath : HeldUnderBothKeys(byPath[p])
        /\ \A r \in DOMAIN byRoute : HeldUnderBothKeys(byRoute[r])

\* C2: wherever a read of the index can run, every file whose last index
\* operation loaded it is present in both maps: no read sees a file deleted
\* from the maps and not yet inserted again.
C2_ReadsSeeIndexedFiles ==
    TaskCanStart =>
        \A p \in Files :
            last[p] = "loaded" =>
                /\ p \in DOMAIN byPath
                /\ RouteOf(p) \in DOMAIN byRoute
                /\ byRoute[RouteOf(p)] = byPath[p]

\* C3: once removeDocumentFromIndex(index, p) has been called, neither map
\* holds a document of path p until an add or update of p is issued, also
\* when an update of p came right before the remove.
C3_RemoveIsTotal ==
    \A p \in Files : last[p] = "removed" => AbsentFromBothMaps(p)

\* C3 witness: the remove of an indexed path that the update completed just
\* before it had loaded, in the variant whose update inserts in a callback.
C3_Witness ==
    /\ variant = "full"
    /\ pc = "mutated"
    /\ ev.op = "remove"
    /\ ev.had
    /\ ev.prev = ev.path
    /\ last[ev.path] = "removed"

\* C4: removeDocumentFromIndex(index, p) leaves both maps as they are when p
\* is not in byPath, and otherwise leaves the byPath entry and the byRoute
\* entry of every other path as they are.
C4_RemoveFrame ==
    [][ (pc' = "mutated" /\ ev'.op = "remove") =>
          LET p == ev'.path
          IN  /\ p \notin DOMAIN byPath => (byRoute' = byRoute /\ byPath' = byPath)
              /\ \A q \in (DOMAIN byPath) \ {p} :
                    /\ q \in DOMAIN byPath'
                    /\ byPath'[q] = byPath[q]
                    /\ \A r \in DOMAIN byRoute :
                          byRoute[r].path = q =>
                              (r \in DOMAIN byRoute' /\ byRoute'[r] = byRoute[r])
      ]_vars

\* C5: when updateDocumentInIndex(index, p, ..) has returned, an ignored p is
\* in neither map, and a p that is not ignored and was loaded is held, as the
\* document just loaded, under byPath[p] and byRoute[route of p], and under
\* no other route.
C5_UpdatePostcondition ==
    (pc = "mutated" /\ ev.op = "update") =>
        LET p == ev.path
        IN  /\ isIgnoredPath(p, ignore) => AbsentFromBothMaps(p)
            /\ (~isIgnoredPath(p, ignore) /\ Loadable(ev.content)) =>
                  /\ HeldUnderBothKeys(DocMeta(p, DocsDir, ev.content))
                  /\ \A r \in (DOMAIN byRoute) \ {RouteOf(p)} : byRoute[r].path # p

\* C6: a watch event makes one index mutation, update for added/changed and
\* remove for removed, and when its reload broadcast is issued the mutation
\* is complete: the index holds the reloaded document under both keys.
C6_BroadcastAfterMutation ==
    [][ (pc = "mutated" /\ pc' = "idle") =>
          /\ ev.kind \in {"added", "changed"} => ev.op = "update"
          /\ ev.kind = "removed" => ev.op = "remove"
          /\ microtasks = <<>>
          /\ (ev.op = "update" /\ ~isIgnoredPath(ev.path, ignore) /\ Loadable(ev.content))
                => HeldUnderBothKeys(DocMeta(ev.path, DocsDir, ev.content))
      ]_vars

\* C7: buildContentIndex returns normally whatever files fail to load, and
\* the index it returns holds exactly the files that loaded, each under its
\* path and, up to files of the same route, under its route.
C7_BuildSurvivesFailures ==
    /\ phase # "aborted"
    /\ (phase = "building" /\ todo = {}) =>
          /\ DOMAIN byPath = okFiles
          /\ DOMAIN byRoute = {RouteOf(f) : f \in okFiles}
          /\ \A f \in okFiles : byPath[f].path = f /\ byPath[f].route = RouteOf(f)
          /\ \A r \in DOMAIN byRoute :
                byRoute[r].path \in okFiles /\ byRoute[r] = byPath[byRoute[r].path]

\* C8: an update of a path that repeats the update completed just before it,
\* the file read giving the same content, leaves the index as the first
\* update left it: the same keys and equal documents.
C8_UpdateIdempotent ==
    (pc = "idle" /\ microtasks = <<>> /\ snap.taken) =>
        byRoute = snap.byRoute /\ byPath = snap.byPath

\* C8 witness: the repeated update of an indexed file has completed.
C8_Witness ==
    /\ pc = "idle"
    /\ microtasks = <<>>
    /\ snap.taken
    /\ prevUpdate.path \in DOMAIN byPath
    /\ byPath[prevUpdate.path].ver = prevUpdate.content
    /\ Cardinality(DOMAIN byPath) > 1

(***************************************************************************)
(* Properties of the route derivation.                                     *)
(***************************************************************************)
Slash == <<"/">>

\* the route the parts of a path call for
ExpectedRoute(in) ==
    IF in.stem = IndexName
    THEN IF in.dir = <<>> THEN Slash ELSE Slash \o in.dir
    ELSE Slash \o (IF in.dir = <<>> THEN <<>> ELSE in.dir \o Slash) \o in.stem

RouteExamples ==
    /\ generateRoute(DocsDir \o Slash \o IndexName \o ExtMd, DocsDir) = Slash
    /\ generateRoute(DocsDir \o <<"/", "g", "u", "i", "d", "e", "/">> \o IndexName \o ExtMd,
                     DocsDir) = <<"/", "g", "u", "i", "d", "e">>
    /\ generateRoute(DocsDir \o <<"/", "g", "u", "i", "d", "e", "/", "x">> \o ExtMdoc,
                     DocsDir) = <<"/", "g", "u", "i", "d", "e", "/", "x">>
    /\ generateRoute(DocsDir \o <<"/", "a", "b", "o", "u", "t">> \o ExtMd, DocsDir)
          = <<"/", "a", "b", "o", "u", "t">>

\* C9: generateRoute strips the trailing .md/.mdoc of the path relative to
\* docsDir; a last segment that is exactly "index" gives "/" in the root
\* directory and "/<dir>" elsewhere, any other path gives "/<path without
\* extension>"; the four example paths derive "/", "/guide", "/guide/x", "/about".
C9_RouteDerivation ==
    /\ RouteExamples
    /\ rout # <<>> => rout = ExpectedRoute(rin)

\* C9 witness: the route of an index file in a subdirectory has been derived.
C9_Witness ==
    /\ rout # <<>>
    /\ rin.stem = IndexName
    /\ rin.dir = <<"g", "/", "s">>
    /\ rin.ext = ExtMdoc

HasMarkupExt(s) == Includes(s, ExtMd) \/ Includes(s, ExtMdoc)

RouteIsClean(route) ==
    /\ ~HasMarkupExt(route)
    /\ EndsWith(route, Slash) => route = Slash

\* C10 as stated: the route of every markup file, a.md.md included, holds no
\* markup extension and ends with "/" only when it is "/".
C10_RouteNeverHoldsExtension ==
    rout # <<>> => RouteIsClean(rout)

\* C10 as amended: the same for every markup file whose path, its final
\* extension left out, holds no markup extension.
C10_RouteCleanForSingleExtension ==
    (rout # <<>> /\ ~HasMarkupExt(RelPath([rin EXCEPT !.ext = <<>>]))) => RouteIsClean(rout)

\* C10 witness: the route of an .mdoc file of a subdirectory has been derived.
C10_Witness ==
    /\ rout # <<>>
    /\ rin.ext = ExtMdoc
    /\ rin.stem = <<"x">>
    /\ rin.dir = <<"g">>
(***************************************************************************)
(* Properties of the sidebar.                                              *)
(***************************************************************************)
RECURSIVE CountRoute(_, _)
\* how many items of the tree, at any depth, carry this route
CountRoute(items, route) ==
    IF items = <<>> THEN 0
    ELSE (IF Head(items).route = route THEN 1 ELSE 0)
         + CountRoute(Head(items).children, route)
         + CountRoute(Tail(items), route)

RECURSIVE PlacedUnder(_, _, _, _)
\* the item of doc is found from `items` by walking its segments from the i-th on
PlacedUnder(items, doc, segments, i) ==
    IF i = Len(segments)
    THEN \E k \in 1..Len(items) :
            items[k].route = doc.route /\ items[k].title = doc.title
    ELSE \E k \in 1..Len(items) :
            /\ items[k].route = <<"/">> \o JoinSegments(segments, i)
            /\ PlacedUnder(items[k].children, doc, segments, i + 1)

\* a comes before b by the no-order rule
InOrder(a, b) ==
    /\ a.dir \/ ~b.dir
    /\ a.dir = b.dir => LocaleCompare(a.title, b.title) <= 0

RECURSIVE SortedLevels(_)
\* every level of the tree has its directories first and each kind by title
SortedLevels(items) ==
    /\ \A k \in 1..(Len(items) - 1) : InOrder(items[k], items[k + 1])
    /\ \A k \in 1..Len(items) : SortedLevels(items[k].children)

PositionOf(items, route) == CHOOSE k \in 1..Len(items) : items[k].route = route

\* the routes the top level of the sidebar is to hold: one per first segment
TopLevelRoutes(docs) ==
    { <<"/">> \o Segments(docs[n].route)[1] :
        n \in {m \in 1..Len(docs) : docs[m].route # <<"/">>} }

\* where the configured order places an item: <<1, n>> by the literal pattern
\* n, <<2, n>> by the glob pattern n, <<3, 0>> by no pattern
PatternClass(item, order) ==
    LET exact == {n \in 1..Len(order) : ~IsGlob(order[n]) /\ ExactMatch(item, order[n])}
        glob == {n \in 1..Len(order) : IsGlob(order[n]) /\ GlobMatch(item, order[n])}
        Least(S) == CHOOSE n \in S : \A m \in S : n <= m
    IN  IF exact # {} THEN <<1, Least(exact)>>
        ELSE IF glob # {} THEN <<2, Least(glob)>>
        ELSE <<3, 0>>

ClassLeq(c, d) == c[1] < d[1] \/ (c[1] = d[1] /\ c[2] <= d[2])

\* C11: the tree generateSidebar returns holds, for each document whose route
\* is not "/", exactly one item of that route and title, found by walking the
\* segments of the route from the top level down through the children of
\* the items of its directories; the document at "/" has no item.
C11_SidebarHoldsEveryDocument ==
    sbOut.done =>
        \A n \in 1..Len(sbIn.docs) :
            LET doc == sbIn.docs[n]
            IN  IF doc.route = <<"/">>
                THEN CountRoute(sbOut.items, doc.route) = 0
                ELSE /\ CountRoute(sbOut.items, doc.route) = 1
                     /\ PlacedUnder(sbOut.items, doc, Segments(doc.route), 1)

\* C12: with an empty order every level of the returned tree has its
\* directory items before its leaf items and the items of each kind in the
\* order of their titles, the children of every directory included.
C12_LevelsAreSorted ==
    (sbOut.done /\ sbIn.order = <<>>) => SortedLevels(sbOut.items)

\* C12 witness: an empty order, and a top level of directories and leaves
\* that the sort has put in another order than the tree was built in.
C12_Witness ==
    /\ sbOut.done
    /\ sbIn.order = <<>>
    /\ Len(sbOut.items) >= 3
    /\ \E i, j \in 1..Len(sbOut.items) : sbOut.items[i].dir /\ ~sbOut.items[j].dir
    /\ sbOut.items # buildTree(sbIn.docs)

\* C13: with a non-empty order the top level holds each top-level item once;
\* the items taken by literal patterns come first, in the order of their
\* patterns, then the items taken by glob patterns, in the order of their
\* patterns, then the items no pattern takes, directories first and by title.
C13_OrderedByPatterns ==
    (sbOut.done /\ sbIn.order # <<>>) =>
        LET items == sbOut.items
            Class(k) == PatternClass(items[k], sbIn.order)
        IN  /\ {items[k].route : k \in 1..Len(items)} = TopLevelRoutes(sbIn.docs)
            /\ Len(items) = Cardinality(TopLevelRoutes(sbIn.docs))
            /\ \A i, j \in 1..Len(items) : i < j => ClassLeq(Class(i), Class(j))
            /\ \A i, j \in 1..Len(items) :
                  (i < j /\ Class(i) = <<3, 0>> /\ Class(j) = <<3, 0>>)
                      => InOrder(items[i], items[j])

\* C13 witness: one item placed by a literal pattern, one by a glob pattern
\* and one by no pattern.
C13_Witness ==
    /\ sbOut.done
    /\ \E i, j, k \in 1..Len(sbOut.items) :
          /\ PatternClass(sbOut.items[i], sbIn.order)[1] = 1
          /\ PatternClass(sbOut.items[j], sbIn.order)[1] = 2
          /\ PatternClass(sbOut.items[k], sbIn.order)[1] = 3

DirOfPattern(pattern) == SubSeq(pattern, 1, Len(pattern) - 2)

IsDirPattern(pattern) ==
    /\ Len(pattern) > 2
    /\ SubSeq(pattern, Len(pattern) - 1, Len(pattern)) = <<"/", "*">>
    /\ ~Includes(DirOfPattern(pattern), <<"*">>)
    /\ ~Includes(DirOfPattern(pattern), <<"/">>)

\* C15: the top-level directory /<dir> stands where the pattern <dir>/* of
\* the order puts it: before every top-level item no pattern matches, and
\* before the directory of every <dir>/* pattern listed later.
C15_DirPatternPlacesDirectory ==
    sbOut.done =>
        \A n \in 1..Len(sbIn.order) :
            LET items == sbOut.items
                route == <<"/">> \o DirOfPattern(sbIn.order[n])
                Held(r) == \E k \in 1..Len(items) : items[k].route = r
            IN  (IsDirPattern(sbIn.order[n]) /\ Held(route) /\ items[PositionOf(items, route)].dir)
                =>  /\ \A k \in 1..Len(items) :
                          (items[k].route # route
                             /\ \A m \in 1..Len(sbIn.order) :
                                   ~ExactMatch(items[k], sbIn.order[m])
                                   /\ ~GlobMatch(items[k], sbIn.order[m])
                                   /\ ~(IsDirPattern(sbIn.order[m])
                                        /\ items[k].route = <<"/">> \o DirOfPattern(sbIn.order[m])))
                              => PositionOf(items, route) < k
                    /\ \A m \in (n + 1)..Len(sbIn.order) :
                          (IsDirPattern(sbIn.order[m])
                             /\ Held(<<"/">> \o DirOfPattern(sbIn.order[m])))
                              => PositionOf(items, route)
                                   < PositionOf(items, <<"/">> \o DirOfPattern(sbIn.order[m]))

(***************************************************************************)
(* Properties of the link check.                                           *)
(***************************************************************************)
InSeq(s, x) == \E k \in 1..Len(s) : s[k] = x

LinkIndexed == {lkOut.byPath[p] : p \in DOMAIN lkOut.byPath}

RECURSIVE TotalLinks(_)
\* the number of links of the documents of a set
TotalLinks(docs) ==
    IF docs = {} THEN 0
    ELSE LET doc == CHOOSE d \in docs : TRUE
         IN  Len(doc.links) + TotalLinks(docs \ {doc})

\* C16: checkInternalLinks puts every link of every document of the index in
\* exactly one of valid, broken and external: the three lengths add up to
\* the number of links, an external link is in external only, and an
\* internal link is in exactly one of valid and broken.
C16_LinksArePartitioned ==
    lkOut.stage = "checked" =>
        LET result == lkOut.result
        IN  /\ Len(result.valid) + Len(result.broken) + Len(result.external)
                  = TotalLinks(LinkIndexed)
            /\ \A doc \in LinkIndexed : \A k \in 1..Len(doc.links) :
                  LET link == doc.links[k]
                  IN  /\ link.type = "external" =>
                            /\ InSeq(result.external, link)
                            /\ ~InSeq(result.valid, link)
                            /\ ~InSeq(result.broken, link)
                      /\ link.type = "internal" =>
                            /\ InSeq(result.valid, link) # InSeq(result.broken, link)
                            /\ ~InSeq(result.external, link)

\* the route a target stands for: a leading "/" is added when it is missing
\* and one trailing "/" is dropped unless the route is "/" itself
TargetRoute(target) ==
    LET slashed == IF target[1] = "/" THEN target ELSE <<"/">> \o target
    IN  IF Len(slashed) > 1 /\ slashed[Len(slashed)] = "/"
        THEN SubSeq(slashed, 1, Len(slashed) - 1)
        ELSE slashed

\* the link has a target, a document is at the route of the target, and the
\* hash of the link, when it has one, is the id of a heading of that document
LinkResolves(link) ==
    /\ link.target # <<>>
    /\ TargetRoute(link.target) \in DOMAIN lkOut.byRoute
    /\ link.hash # <<>> =>
          link.hash \in { lkOut.byRoute[TargetRoute(link.target)].headings[k] :
                            k \in 1..Len(lkOut.byRoute[TargetRoute(link.target)].headings) }

\* C17: an internal link of a checked document is reported valid iff it has
\* a target, a document exists at the normalised route of the target and the
\* hash, if any, is the id of one of its headings; it is reported broken
\* in every other case.
C17_InternalLinkValidity ==
    lkOut.stage = "checked" =>
        \A route \in DOMAIN lkOut.byRoute :
            \A k \in 1..Len(lkOut.byRoute[route].links) :
                LET link == lkOut.byRoute[route].links[k]
                IN  link.type = "internal" =>
                        /\ InSeq(lkOut.result.valid, link) <=> LinkResolves(link)
                        /\ InSeq(lkOut.result.broken, link) <=> ~LinkResolves(link)

\* C17 witness: a link to a heading that exists was reported valid and a link
\* to a heading that does not exist was reported broken.
C17_Witness ==
    /\ lkOut.stage = "checked"
    /\ InSeq(lkOut.result.valid, LinkOfHref(HrefAnchor))
    /\ InSeq(lkOut.result.broken, LinkOfHref(HrefNoAnchor))

\* C18: for the root of index.md, guide/a.md with the one link guide/b.md, and
\* guide/b.md, byRoute has the keys /, /guide/a and /guide/b and the check
\* reports 1 valid, 0 broken and 0 external links; and every internal link
\* whose target is the path, relative to the root, of an indexed file is valid.
C18_RelativeFileLinkIsValid ==
    lkOut.stage = "checked" =>
        /\ ( /\ {lkIn.files[k].path : k \in 1..Len(lkIn.files)} = {FIndex, FGuideA, FGuideB}
             /\ \A k \in 1..Len(lkIn.files) :
                   lkIn.files[k].nodes = IF lkIn.files[k].path = FGuideA
                                         THEN <<LinkNode(HrefRelativeFile)>>
                                         ELSE <<>> )
           => /\ DOMAIN lkOut.byRoute
                    = {<<"/">>, generateRoute(FGuideA, DocsDir), generateRoute(FGuideB, DocsDir)}
              /\ Len(lkOut.result.valid) = 1
              /\ Len(lkOut.result.broken) = 0
              /\ Len(lkOut.result.external) = 0
        /\ \A route \in DOMAIN lkOut.byRoute :
              \A k \in 1..Len(lkOut.byRoute[route].links) :
                  LET link == lkOut.byRoute[route].links[k]
                  IN  (link.type = "internal"
                         /\ DocsDir \o <<"/">> \o link.target \in DOMAIN lkOut.byPath)
                      => InSeq(lkOut.result.valid, link)

(***************************************************************************)
(* Properties of the external link check.                                  *)
(***************************************************************************)
InRange(outcome) ==
    outcome.kind = "status" /\ outcome.status >= 200 /\ outcome.status < 400

CheckSet == {xchk.checks[k] : k \in 1..Len(xchk.checks)}

Settled(c) == c.phase = "settled"

\* C19: a check whose HEAD request completed with a status outside [200,400)
\* has retried once with GET, and its URL counts as valid exactly when that
\* GET returned a status in [200,400).
C19_HeadStatusRetriedWithGet ==
    \A c \in CheckSet :
        (Settled(c) /\ c.head.kind = "status" /\ ~InRange(c.head))
            => /\ c.requests = <<"HEAD", "GET">>
               /\ c.value = InRange(c.get)

BatchIndex(k) == (k - 1) \div batchSize

InFlight(c) == c.phase \in {"head", "get"}

Positions == 1..Len(xchk.checks)

\* the positions whose check is started by this step
StartedNow == {k \in Positions : xchk.checks[k].phase = "idle"
                                  /\ xchk'.checks[k].phase # "idle"}

\* the step starts no check, or exactly the checks of one batch
StartsWholeBatch ==
    (Len(xchk.checks) = Len(xchk'.checks) /\ StartedNow # {})
        => \E b \in 0..BatchIndex(Len(xurls)) :
              StartedNow = {k \in Positions : BatchIndex(k) = b}

\* C21: checkExternalLinks works through urls in consecutive batches of 10:
\* at most 10 checks are in flight at any moment, the checks of a batch are
\* started together, and no request of batch k+1 is issued before every check
\* of batch k has settled.
C21_BatchesOfTen ==
    /\ [](Cardinality({k \in Positions : InFlight(xchk.checks[k])}) <= 10)
    /\ [](\A j, k \in Positions :
             (BatchIndex(j) = BatchIndex(k))
                => (xchk.checks[j].phase = "idle" <=> xchk.checks[k].phase = "idle"))
    /\ [](\A j, k \in Positions :
             (BatchIndex(j) < BatchIndex(k) /\ xchk.checks[k].requests # <<>>)
                => Settled(xchk.checks[j]))
    /\ [][StartsWholeBatch]_vars

\* C21 witness: every check of the batches before the last has settled, the
\* last of them (u) after a GET, and the one check of the last batch is in
\* flight.
C21_Witness ==
    LET full == batchSize * (MaxBatches - 1)
    IN  /\ Len(xchk.checks) = full + 1
        /\ \A k \in 1..full : Settled(xchk.checks[k])
        /\ xchk.checks[full].requests = <<"HEAD", "GET">>
        /\ xchk.checks[full + 1].phase = "head"
        /\ Len(xchk.valid) + Len(xchk.broken) = full

\* the outcome that decided a check: the answer to HEAD, or what became of GET
Decisive(c) == IF c.head.kind = "status" THEN c.head ELSE c.get

RECURSIVE UrlsDecided(_, _, _)
\* the URLs of the positions from k on whose decisive outcome is, or is not, a
\* status in [200,400), in the order of urls
UrlsDecided(checks, k, ok) ==
    IF k > Len(checks) THEN <<>>
    ELSE (IF InRange(Decisive(checks[k])) = ok THEN <<xurls[k]>> ELSE <<>>)
            \o UrlsDecided(checks, k + 1, ok)

\* C22: whatever the URLs and whatever becomes of each request, in whatever
\* order the requests complete, checkExternalLinks returns, and then every
\* occurrence of urls is in exactly one of valid and broken under its own URL
\* (valid when its decisive outcome was a status in [200,400)), so that
\* valid.length + broken.length = urls.length.
C22_EveryUrlClassified ==
    /\ <>(xchk.stage = "returned")
    /\ [](xchk.stage = "returned" =>
            /\ Len(xchk.checks) = Len(xurls)
            /\ xchk.valid = UrlsDecided(xchk.checks, 1, TRUE)
            /\ xchk.broken = UrlsDecided(xchk.checks, 1, FALSE)
            /\ Len(xchk.valid) + Len(xchk.broken) = Len(xurls))

\* C22 witness: of a URL listed twice, one occurrence was answered by HEAD
\* and is in valid, the other saw both requests fail and is in broken.
C22_Witness ==
    /\ xchk.stage = "returned"
    /\ xurls = <<"u", "u">>
    /\ xchk.checks[1].get.kind = "error"
    /\ xchk.checks[2].head = Responded(200)
    /\ xchk.valid = <<"u">>
    /\ xchk.broken = <<"u">>

\* check k runs into its timeout in this step
TimesOutNow(k) ==
    \/ xchk.checks[k].head.kind # "timeout" /\ xchk'.checks[k].head.kind = "timeout"
    \/ xchk.checks[k].get.kind # "timeout" /\ xchk'.checks[k].get.kind = "timeout"

\* a timeout of check k changes that check alone: a timed-out HEAD is followed
\* by the GET of the same URL, a timed-out GET settles the check as broken
TimeoutIsLocal ==
    \A k \in Positions :
        (Len(xchk'.checks) = Len(xchk.checks) /\ TimesOutNow(k)) =>
            /\ \A j \in Positions \ {k} : xchk'.checks[j] = xchk.checks[j]
            /\ xchk'.valid = xchk.valid /\ xchk'.broken = xchk.broken
            /\ xchk'.checks[k].url = xchk.checks[k].url
            /\ IF xchk.checks[k].phase = "head"
               THEN /\ xchk'.checks[k].phase = "get"
                    /\ xchk'.checks[k].requests = <<"HEAD", "GET">>
               ELSE /\ Settled(xchk'.checks[k])
                    /\ ~xchk'.checks[k].value
                    /\ xchk'.checks[k].requests = xchk.checks[k].requests

\* C27: within a batch a timeout aborts only the request it belongs to: the
\* step changes no other check, the timed-out HEAD leads to the GET retry of
\* its own URL (a timed-out GET to its failure), and the outcome of every
\* check is decided by the answers to its own requests alone.
C27_TimeoutIsPerRequest ==
    /\ [][TimeoutIsLocal]_vars
    /\ [](\A k \in Positions :
             Settled(xchk.checks[k])
                => xchk.checks[k].value = InRange(Decisive(xchk.checks[k])))

\* C27 witness: in one batch u timed out on HEAD and on GET and is broken,
\* while v, answered 200 on HEAD, is valid.
C27_Witness ==
    /\ xchk.stage = "returned"
    /\ xurls = <<"u", "v">>
    /\ xchk.checks[1].head.kind = "timeout"
    /\ xchk.checks[1].get.kind = "timeout"
    /\ xchk.checks[2].head = Responded(200)
    /\ xchk.checks[2].requests = <<"HEAD">>
    /\ xchk.valid = <<"v">>
    /\ xchk.broken = <<"u">>

(***************************************************************************)
(* Properties of the ignore matcher.                                       *)
(***************************************************************************)
\* piece, a run of pattern characters without "*", stands in s at position j;
\* with dotAny a "." of the piece stands for any one character
PieceAt(piece, s, j, dotAny) ==
    /\ j + Len(piece) - 1 <= Len(s)
    /\ \A i \in 1..Len(piece) :
          \/ piece[i] = s[j + i - 1]
          \/ dotAny /\ piece[i] = "."

RECURSIVE PiecesFrom(_, _, _, _, _)
\* the pieces from the n-th on stand in s in their order, at or after position j
PiecesFrom(pieces, n, s, j, dotAny) ==
    IF n > Len(pieces) THEN TRUE
    ELSE \E k \in j..(Len(s) + 1) :
            /\ PieceAt(pieces[n], s, k, dotAny)
            /\ PiecesFrom(pieces, n + 1, s, k + Len(pieces[n]), dotAny)

\* the pattern, each "*" standing for any run of characters, matches somewhere in s
StarMatches(pattern, s, dotAny) ==
    PiecesFrom(SplitOn(pattern, "*", 1, <<>>), 1, s, 1, dotAny)

\* the path is ignored by the rule: a pattern with "*" matches its path
\* relative to the working directory, or a pattern without "*" is a part of it
IgnoredByRule(p, patterns, dotAny) ==
    LET rel == SubSeq(p, Len(Cwd) + 2, Len(p))
    IN  \E n \in 1..Len(patterns) :
            IF \E i \in 1..Len(patterns[n]) : patterns[n][i] = "*"
            THEN StarMatches(patterns[n], rel, dotAny)
            ELSE Includes(rel, patterns[n])

IgnoreExamples ==
    /\ \A p \in IgnorePaths : ~isIgnoredPath(p, <<>>)
    /\ isIgnoredPath(PathDraftsX, <<PatDraftsGlob>>)
    /\ isIgnoredPath(PathDraftsSubY, <<PatDraftsGlob>>)
    /\ isIgnoredPath(PathNotesDraft, <<PatDraftMd>>)

FirstExisting(files) ==
    FirstIndex([n \in 1..Len(files) |-> files[n].kind # "absent"])

\* the defaults, each field the file sets taken from the file
Overridden(config) ==
    [f \in DOMAIN DEFAULT_CONFIG |->
        IF f \in DOMAIN config THEN config[f] ELSE DEFAULT_CONFIG[f]]

\* C24: loadConfig uses the first candidate file that exists, in the order
\* .yaml, .yml, .json, and no other: when it parses the result is the
\* defaults overridden field by field by it; when it cannot be parsed a
\* warning is logged and the result is the default configuration; without
\* any file the result is the defaults; loadConfig always returns.
C24_FirstExistingFileOnly ==
    cfOut # NoCall =>
        LET first == FirstExisting(cfIn.files)
        IN  /\ cfOut.stage = "returned"
            /\ first = 0 => cfOut.config = DEFAULT_CONFIG /\ cfOut.warned = <<>>
            /\ cfOut.used \in {0, first}
            /\ (first # 0 /\ cfIn.files[first].kind = "parsed")
                  => /\ cfOut.config = Overridden(cfIn.files[first].config)
                     /\ cfOut.warned = <<>>
            /\ (first # 0 /\ cfIn.files[first].kind \in Unusable)
                  => /\ cfOut.config = DEFAULT_CONFIG
                     /\ InSeq(cfOut.warned, first)

(***************************************************************************)
(* Properties of the build and check commands.                             *)
(***************************************************************************)
\* the file a route is to be written to: index.html for "/", else <route>/index.html
PageOf(route) ==
    IF route = <<"/">> THEN <<"i", "n", "d", "e", "x", ".", "h", "t", "m", "l">>
    ELSE SubSeq(route, 2, Len(route)) \o <<"/", "i", "n", "d", "e", "x", ".", "h", "t", "m", "l">>

BrokenInternal == Len(bOut.linkResult.broken)

Halts == bIn.strict /\ BrokenInternal > 0

Occurrences(s, x) == Cardinality({k \in 1..Len(s) : s[k] = x})

C30_StrictCountsInternalOnly ==
    /\ bOut.pos \in {"rendering", "done"} => ~Halts
    /\ bOut.pos = "exited" => Halts
    /\ bOut.pos \in {"exited", "done"} => (bOut.code = "1" <=> Halts)
    /\ bOut.code = "1" => bOut.pos = "exited"

\* C30 witness: a strict check run without broken internal links has
\* succeeded although an external URL was reported broken.
C30_Witness ==
    /\ bIn.command = "check"
    /\ bIn.strict
    /\ bOut.pos = "done"
    /\ bOut.code = "0"
    /\ BrokenInternal = 0
    /\ Len(bOut.externalResult.broken) > 0

(***************************************************************************)
(* Properties of extractLinks.                                             *)
(***************************************************************************)
IsLetter(c) == \E k \in 1..Len(Lower) : Lower[k] = c

\* the href is an absolute URL: letters, then ":"
HasScheme(href) ==
    \E i \in 2..Len(href) :
        /\ href[i] = ":"
        /\ \A k \in 1..(i - 1) : IsLetter(href[k])

IsProtocolRelative(href) == StartsWith(href, <<"/", "/">>)

IsBareFragment(href) == StartsWith(href, <<"#">>)

\* the href without its fragment: what stands before the first "#"
BeforeFragment(href) ==
    LET hashes == {i \in 1..Len(href) : href[i] = "#"}
    IN  IF hashes = {} THEN href
        ELSE SubSeq(href, 1, (CHOOSE i \in hashes : \A j \in hashes : i <= j) - 1)

\* the href carries a fragment: something follows a "#"
CarriesFragment(href) ==
    \E i \in 1..(Len(href) - 1) : href[i] = "#" /\ href[i + 1] # "#"

\* C26: every extracted link is internal or external and not both; it is
\* external exactly when its href is an absolute URL with a scheme or is
\* protocol-relative, internal exactly when the href is relative without a
\* scheme and not a bare fragment; an internal link carries as target the
\* href without its fragment, and a hash exactly when the href carried one.
C26_LinkTypeByHref ==
    exOut # NoCall =>
        \A k \in 1..Len(exOut.links) :
            LET link == exOut.links[k]
            IN  /\ link.type \in {"internal", "external"}
                /\ link.type = "external"
                      <=> (HasScheme(link.href) \/ IsProtocolRelative(link.href))
                /\ link.type = "internal"
                      <=> (~HasScheme(link.href) /\ ~IsProtocolRelative(link.href)
                              /\ ~IsBareFragment(link.href))
                /\ link.type = "internal" =>
                      /\ link.target = BeforeFragment(link.href)
                      /\ link.hash # <<>> <=> CarriesFragment(link.href)

(***************************************************************************)
(* Properties of the start of the server.                                  *)
(***************************************************************************)
Starting == phase \in {"init", "building"}

\* no listener of the watcher and no request handler is running or has run
NoHandlerYet ==
    /\ pc = "idle"
    /\ ev = NoEvent
    /\ microtasks = <<>>
    /\ resp = NoResp
    /\ snap = NoSnap
    /\ prevUpdate = NoUpdate
    /\ \A f \in Files : last[f] # "removed"

\* a step taken while the build runs is a step of the build: it leaves every
\* document of the index in place, or empties the index at the start
BuildStepOnly ==
    Starting =>
        /\ resp' = NoResp /\ ev' = NoEvent /\ pc' = "idle"
        /\ \/ phase = "init" /\ byPath' = EmptyMap
           \/ \A p \in DOMAIN byPath : p \in DOMAIN byPath' /\ byPath'[p] = byPath[p]

\* C28: start subscribes the watcher and starts the listener only after
\* buildContentIndex has completed: while the initial build is in progress
\* no watch event mutates the index (no update, no remove) and no request
\* reads it.
C28_NoEventsDuringInitialBuild ==
    /\ [](Starting => NoHandlerYet)
    /\ [][BuildStepOnly]_vars

\* C28 witness: the build has indexed a file and has another still to load.
C28_Witness ==
    /\ phase = "building"
    /\ FGuide \in DOMAIN byPath
    /\ FGuideIndex \in todo

(***************************************************************************)
(* Properties of the request handler.                                      *)
(***************************************************************************)
\* C29: the server serves a page for exactly the routes of the index: a
\* request whose path is the route of a document of byRoute is answered with
\* the page of that document, and a request for a path that is no key of
\* byRoute with 404.
C29_PagesForExactlyTheRoutes ==
    resp # NoResp =>
        IF resp.route \in DOMAIN byRoute
        THEN resp.status = 200 /\ resp.doc = byRoute[resp.route]
        ELSE resp.status = 404

====
